---- MODULE Spec2Model ----
(***************************************************************************)
(* Dependency analysis of a mod list: the installed-id maps, the          *)
(* requirement graph, the priority-aware topological sort with cycle       *)
(* breaking, the load-order diagnostics and the minimal-disruption        *)
(* corrector.  Modelled from src/core/analyzer.py and                      *)
(* src/ui/main_window.py.                                                  *)
(***************************************************************************)
EXTENDS Integers, Sequences, FiniteSets, TLC

(***************************************************************************)
(* Bounds of the model.                                                    *)
(***************************************************************************)
\* largest number of requirement entries over all scraped pages, in the
\* scenarios of the sort and in those of the corrector
MaxSortEdges == 2
MaxEdges == 3
\* largest number of separators in the mod list
MaxSeps == 2
MaxNetEdges == 2
MaxFetchDepth == 2

(***************************************************************************)
(* The universe the scenarios are drawn from.                              *)
(***************************************************************************)
Mods == {"A", "B", "C"}
SepNames == <<"S1", "S2", "S3">>
Seps == {SepNames[i] : i \in 1..MaxSeps}
\* Nexus ids; a nexusId of 0 is a folder without a Nexus id
Ids == 1..4

\* category -> priority table of the settings, and the default of .get(c, 50)
DefaultPriority == 50
CATEGORY_PRIORITIES(c) ==
    CASE c = "Utilities" -> 10
      [] c = "Default"   -> 50
      [] c = "Patches"   -> 99
      [] OTHER           -> DefaultPriority

\* current_priority_map.get(folder, 9999)
UnknownPosition == 9999

(***************************************************************************)
(* Sequence helpers.                                                       *)
(***************************************************************************)
Range(s) == {s[i] : i \in DOMAIN s}

\* x in list
Has(s, x) == \E i \in DOMAIN s : s[i] = x

\* list.index(x): the 0-based index of the first occurrence (of an x in the list)
IndexOf(s, x) ==
    (CHOOSE i \in DOMAIN s : s[i] = x /\ \A j \in 1..(i - 1) : s[j] # x) - 1

\* all permutations of a finite set, as sequences
Perms(S) ==
    {s \in [1..Cardinality(S) -> S] : \A x \in S : \E i \in DOMAIN s : s[i] = x}

\* PopAt that removes nothing
PopNothing(s, i) == s

\* list.pop(i) with a 0-based index
PopAt(s, i) == SubSeq(s, 1, i) \o SubSeq(s, i + 2, Len(s))

\* s[:i] + [x] + s[i:] with a 0-based index; a slice bound past the end is clamped
InsertAt(s, i, x) ==
    LET k == IF i > Len(s) THEN Len(s) ELSE i
    IN  SubSeq(s, 1, k) \o <<x>> \o SubSeq(s, k + 1, Len(s))

RECURSIVE SumSeq(_)
SumSeq(s) == IF s = <<>> THEN 0 ELSE Head(s) + SumSeq(Tail(s))

RECURSIVE Flatten(_)
Flatten(ss) == IF ss = <<>> THEN <<>> ELSE Head(ss) \o Flatten(Tail(ss))

(***************************************************************************)
(* State.                                                                  *)
(***************************************************************************)
VARIABLES
    \* the organizer (MO2): the profile's priority list and each mod's Nexus id
    modList, nexusId,
    \* the scraped pages: id -> [category, requires: sequence of [url, notes]]
    site,
    \* rule tables of the analyzer
    ignore_ids, replacement_map, ignore_requirements_of_ids,
    \* installed-id maps of the analyzer
    folder_to_id, id_to_folders, installed_ids,
    \* the cooperative stop flag
    stop_requested,
    \* data of the last full analysis
    known_mod_data, full_graph, load_order_problems,
    \* _perform_topological_sort: locals, position and results
    sortPc, in_degree, graph, ready_queue, sorted_order, broken_cycle_nodes,
    cancelled, iterations, run, first_result,
    \* correct_load_order: locals, position and results
    corrPc, problems_to_fix, visit, visitIdx, passNo, made_change_in_pass,
    proposed_order, moved_mods, uiOutcome, setPrioritiesCalls,
    \* generate_sorted_load_order: the setting, position, locals of the network
    \* build, the missing-dependency report and the terminal messages put
    UNINSTALLED_MOD_FETCH_DEPTH, netPc, known_ids, next_layer, depth,
    reverse_graph, missing_report, results,
    \* get_mod_data: the cache connection, the retry setting, the valid rows of
    \* the cache table, position, argument, loop locals and the returned value
    conn, MAX_RETRIES, cache, fetchPc, fetch_mod_id, attempt, last_error,
    mod_data,
    \* the dialog (UI thread): the task queue, its flags, the current tab,
    \* whether the report tree shows diagnosis items, the data of the last
    \* full analysis, the number of results processed, the position of
    \* correct_load_order; and a history variable: trigger_stop has called
    \* request_stop since _start_task last put a task
    task_queue, is_running_analysis, browser_ready, tabs_current, tree_problems,
    last_full_analysis_data, processed, uiPc, stop_called,
    \* the worker thread: position, the task being handled, the number of
    \* tasks taken from the queue
    workerPc, task, handled,
    \* _build_dependency_tree: the depth setting, the three filters of the
    \* request, position, the frames of the calls in progress (the root's
    \* first) and the value returned to the caller
    MAX_RECURSION_DEPTH, hide_vr, hide_optional, hide_recommended, treePc,
    call_stack, root_data

scenarioVars == <<modList, nexusId, site, ignore_ids, replacement_map,
                  ignore_requirements_of_ids>>
mapVars == <<folder_to_id, id_to_folders, installed_ids>>
analysisVars == <<known_mod_data, full_graph, load_order_problems>>
sortVars == <<sortPc, in_degree, graph, ready_queue, sorted_order,
              broken_cycle_nodes, cancelled, iterations, run, first_result>>
corrVars == <<corrPc, problems_to_fix, visit, visitIdx, passNo,
              made_change_in_pass, proposed_order, moved_mods, uiOutcome,
              setPrioritiesCalls>>
netVars == <<UNINSTALLED_MOD_FETCH_DEPTH, netPc, known_ids, next_layer, depth,
             reverse_graph, missing_report, results>>
fetchVars == <<conn, MAX_RETRIES, cache, fetchPc, fetch_mod_id, attempt, last_error,
               mod_data>>
uiVars == <<task_queue, is_running_analysis, browser_ready, tabs_current,
            tree_problems, last_full_analysis_data, processed, uiPc, stop_called>>
workerVars == <<workerPc, task, handled>>
treeVars == <<MAX_RECURSION_DEPTH, hide_vr, hide_optional, hide_recommended, treePc,
              call_stack, root_data>>
vars == <<scenarioVars, mapVars, netVars, stop_requested, analysisVars, sortVars,
          corrVars, fetchVars, uiVars, workerVars, treeVars>>

(***************************************************************************)
(* The organizer.                                                          *)
(***************************************************************************)
isSeparator(name) == name \in Seps

\* mod.nexusId(); separators carry none
NexusIdOf(ids, name) == IF name \in DOMAIN ids THEN ids[name] ELSE 0

(***************************************************************************)
(* _parse_installed_mods: folder_to_id is a dict in insertion order, kept  *)
(* as a sequence of [folder, id]; id_to_folders lists each id's folders in *)
(* priority order.                                                         *)
(***************************************************************************)
RECURSIVE ParseFolderToId(_, _)
ParseFolderToId(list, ids) ==
    IF list = <<>> THEN <<>>
    ELSE LET name == Head(list)
             rest == ParseFolderToId(Tail(list), ids)
         IN  IF ~isSeparator(name) /\ NexusIdOf(ids, name) > 0
             THEN <<[folder |-> name, id |-> NexusIdOf(ids, name)]>> \o rest
             ELSE rest

RECURSIVE FoldersOfId(_, _)
FoldersOfId(f2i, id) ==
    IF f2i = <<>> THEN <<>>
    ELSE IF Head(f2i).id = id
         THEN <<Head(f2i).folder>> \o FoldersOfId(Tail(f2i), id)
         ELSE FoldersOfId(Tail(f2i), id)

ParseIdToFolders(f2i) == [id \in Ids |-> FoldersOfId(f2i, id)]

ParseInstalledIds(f2i) == {f2i[i].id : i \in DOMAIN f2i}

\* the keys of folder_to_id
Folders(f2i) == {f2i[i].folder : i \in DOMAIN f2i}

\* folder_to_id[folder], for a key of the dict
IdOfFolder(f2i, folder) == (CHOOSE e \in Range(f2i) : e.folder = folder).id

(***************************************************************************)
(* Rule lookups.                                                           *)
(***************************************************************************)
\* _get_effective_id: one hop through the replacement map
GetEffectiveId(rmap, required_id) ==
    IF required_id \in DOMAIN rmap THEN rmap[required_id] ELSE required_id

\* _is_dependency_satisfied
IsDependencySatisfied(rmap, installed, required_id) ==
    GetEffectiveId(rmap, required_id) \in installed

\* _extract_mod_id_from_url: a url is kept as <<path segment, number>>; the
\* regex /mods/(\d+) matches the urls of mod pages only
UrlHasModId(url) == url[1] = "mods"
ExtractModIdFromUrl(url) == url[2]

(***************************************************************************)
(* _build_full_dependency_network, phase 3: the forward graph, a           *)
(* defaultdict(list) id -> sequence of [id, notes].  known_mod_data is a   *)
(* dict in insertion order, kept as a sequence of [id, data].              *)
(***************************************************************************)
KnownIds(known) == {known[i].id : i \in DOMAIN known}

KnownData(known, id) == (CHOOSE e \in Range(known) : e.id = id).data

\* the requirement entries of one page whose url names a mod
EdgesOfRequires(requires) ==
    Flatten([k \in 1..Len(requires) |->
        IF UrlHasModId(requires[k].url)
        THEN <<[id |-> ExtractModIdFromUrl(requires[k].url), notes |-> requires[k].notes]>>
        ELSE <<>>])

BuildGraph(known, ignReq) ==
    [id \in Ids |->
        IF id \in KnownIds(known) /\ id \notin ignReq
        THEN EdgesOfRequires(KnownData(known, id).requires)
        ELSE <<>>]

(***************************************************************************)
(* _get_mod_separators: the nearest preceding separator of each folder.    *)
(***************************************************************************)
NoSeparator == "NoSeparator"

RECURSIVE SeparatorBefore(_, _)
\* the separator in force after the first k entries of the list
SeparatorBefore(list, k) ==
    IF k = 0 THEN NoSeparator
    ELSE IF isSeparator(list[k]) THEN list[k] ELSE SeparatorBefore(list, k - 1)

\* separator_map.get(folder, "unknown")
GetModSeparator(list, name) ==
    IF Has(list, name) THEN SeparatorBefore(list, IndexOf(list, name)) ELSE "Unknown"

(***************************************************************************)
(* _analyze_current_load_order: the list of problems, in the order the     *)
(* loops emit them.                                                        *)
(***************************************************************************)
\* provider_priority is not None and provider_priority > dependent_priority
\* a comparison that also counts a provider at the position of the dependent
ProviderIsNotBefore(order, provider_folder, dependent_folder) ==
    Has(order, provider_folder)
    /\ IndexOf(order, provider_folder) >= IndexOf(order, dependent_folder)

ProviderIsAfter(order, provider_folder, dependent_folder) ==
    Has(order, provider_folder)
    /\ IndexOf(order, provider_folder) > IndexOf(order, dependent_folder)

ProblemsOfRequirement(list, i2f, installed, rmap, dep, req_info) ==
    LET provider_id_effective == GetEffectiveId(rmap, req_info.id)
        providers == i2f[provider_id_effective]
    IN  IF provider_id_effective \in installed
        THEN Flatten([j \in 1..Len(providers) |->
                IF ProviderIsAfter(list, providers[j], dep.folder)
                THEN <<[mod_folder |-> dep.folder, mod_id |-> dep.id,
                        provider_folder |-> providers[j],
                        provider_id |-> provider_id_effective,
                        notes |-> req_info.notes,
                        separator |-> GetModSeparator(list, dep.folder)]>>
                ELSE <<>>])
        ELSE <<>>

ProblemsOfDependent(list, i2f, installed, rmap, ignReq, fgraph, dep) ==
    IF dep.id \in ignReq \/ ~Has(list, dep.folder) THEN <<>>
    ELSE Flatten([r \in 1..Len(fgraph[dep.id]) |->
            ProblemsOfRequirement(list, i2f, installed, rmap, dep, fgraph[dep.id][r])])

AnalyzeCurrentLoadOrder(list, f2i, i2f, installed, rmap, ignReq, fgraph) ==
    Flatten([k \in 1..Len(f2i) |->
        ProblemsOfDependent(list, i2f, installed, rmap, ignReq, fgraph, f2i[k])])

(***************************************************************************)
(* _calculate_disruption_score: the number of (requirement entry,          *)
(* provider folder) pairs of the whole graph whose provider comes after    *)
(* the dependent in the given order.                                       *)
(***************************************************************************)
\* ScoreOfRequirement that adds one for a requirement entry with a late
\* provider, however many folders provide it
ScoreOncePerRequirement(order, i2f, installed, rmap, dependent_folder, req_info) ==
    LET provider_id_effective == GetEffectiveId(rmap, req_info.id)
        providers == i2f[provider_id_effective]
    IN  IF provider_id_effective \in installed
           /\ \E j \in 1..Len(providers) :
                 ProviderIsAfter(order, providers[j], dependent_folder)
        THEN 1 ELSE 0

ScoreOfRequirement(order, i2f, installed, rmap, dependent_folder, req_info) ==
    LET provider_id_effective == GetEffectiveId(rmap, req_info.id)
        providers == i2f[provider_id_effective]
    IN  IF provider_id_effective \in installed
        THEN SumSeq([j \in 1..Len(providers) |->
                IF ProviderIsAfter(order, providers[j], dependent_folder)
                THEN 1 ELSE 0])
        ELSE 0

ScoreOfDependent(order, f2i, i2f, installed, rmap, ignReq, fgraph, dependent_folder) ==
    IF dependent_folder \notin Folders(f2i) \/ IdOfFolder(f2i, dependent_folder) \in ignReq
    THEN 0
    ELSE LET dependent_id == IdOfFolder(f2i, dependent_folder)
         IN  SumSeq([r \in 1..Len(fgraph[dependent_id]) |->
                ScoreOfRequirement(order, i2f, installed, rmap, dependent_folder,
                                   fgraph[dependent_id][r])])

CalculateDisruptionScore(order, f2i, i2f, installed, rmap, ignReq, fgraph) ==
    SumSeq([k \in 1..Len(order) |->
        ScoreOfDependent(order, f2i, i2f, installed, rmap, ignReq, fgraph, order[k])])

(***************************************************************************)
(* _perform_topological_sort.                                              *)
(***************************************************************************)
\* Python's order on the folder names of the universe
NameOrder == <<"A", "B", "C", "S1", "S2", "S3">>
NameRank(name) == CHOOSE i \in DOMAIN NameOrder : NameOrder[i] = name

\* known_mod_data.get(mod_id, {}).get("category", "Default")
CategoryOf(known, mod_id) ==
    IF mod_id \in KnownIds(known) THEN KnownData(known, mod_id).category ELSE "Default"

\* current_priority_map.get(folder, 9999)
CurrentPos(list, folder) ==
    IF Has(list, folder) THEN IndexOf(list, folder) ELSE UnknownPosition

\* the heap entry (main_priority, current_pos, folder) of a folder
SortKey(list, f2i, known, folder) ==
    <<CATEGORY_PRIORITIES(CategoryOf(known, IdOfFolder(f2i, folder))),
      CurrentPos(list, folder), folder>>

\* KeyLess on the category priority alone
KeyLessByPriorityOnly(k1, k2) == k1[1] < k2[1]

\* Python's tuple comparison of two heap entries
KeyLess(k1, k2) ==
    \/ k1[1] < k2[1]
    \/ k1[1] = k2[1] /\ k1[2] < k2[2]
    \/ k1[1] = k2[1] /\ k1[2] = k2[2] /\ NameRank(k1[3]) < NameRank(k2[3])

\* Smallest with the comparison reversed
Largest(keys) == {k \in keys : \A k2 \in keys : ~KeyLess(k, k2)}

\* the entries heappop / min may return: those no other entry is less than
Smallest(keys) == {k \in keys : \A k2 \in keys : ~KeyLess(k2, k)}

\* lines 738-747: the (provider folder, dependent folder) edges in loop order
SortEdgesOfRequirement(f2i, i2f, installed, rmap, dep, req_info) ==
    IF ~IsDependencySatisfied(rmap, installed, req_info.id) THEN <<>>
    ELSE LET providers == i2f[GetEffectiveId(rmap, req_info.id)]
         IN  Flatten([j \in 1..Len(providers) |->
                IF providers[j] \in Folders(f2i)
                THEN <<[provider |-> providers[j], dependent |-> dep.folder]>>
                ELSE <<>>])

SortEdgesOfDependent(f2i, i2f, installed, rmap, ignReq, fgraph, dep) ==
    IF dep.id \in ignReq THEN <<>>
    ELSE Flatten([r \in 1..Len(fgraph[dep.id]) |->
            SortEdgesOfRequirement(f2i, i2f, installed, rmap, dep, fgraph[dep.id][r])])

SortEdges(f2i, i2f, installed, rmap, ignReq, fgraph) ==
    Flatten([k \in 1..Len(f2i) |->
        SortEdgesOfDependent(f2i, i2f, installed, rmap, ignReq, fgraph, f2i[k])])

RECURSIVE DependentsOf(_, _)
\* graph[provider_folder]: its dependents, one entry per edge
DependentsOf(edges, provider) ==
    IF edges = <<>> THEN <<>>
    ELSE IF Head(edges).provider = provider
         THEN <<Head(edges).dependent>> \o DependentsOf(Tail(edges), provider)
         ELSE DependentsOf(Tail(edges), provider)

\* InDegreeOf with "in_degree[dep_folder] += 1" replaced by "= 1"
InDegreeAtMostOne(edges, dependent) ==
    IF \E i \in DOMAIN edges : edges[i].dependent = dependent THEN 1 ELSE 0

RECURSIVE InDegreeOf(_, _)
\* in_degree[dependent]: one count per edge
InDegreeOf(edges, dependent) ==
    IF edges = <<>> THEN 0
    ELSE (IF Head(edges).dependent = dependent THEN 1 ELSE 0)
         + InDegreeOf(Tail(edges), dependent)

RECURSIVE RelaxWithoutPush(_, _)
\* Relax with the heappush of line 775 left out
RelaxWithoutPush(vs, st) ==
    IF vs = <<>> THEN st
    ELSE LET v == Head(vs)
         IN  IF st.deg[v] > 0
             THEN RelaxWithoutPush(Tail(vs),
                        [deg |-> [st.deg EXCEPT ![v] = @ - 1], pushed |-> st.pushed])
             ELSE RelaxWithoutPush(Tail(vs), st)

RECURSIVE Relax(_, _)
\* lines 767-775: walk graph[u_folder]; st = [deg, pushed] is the in-degree map
\* and the folders pushed so far
Relax(vs, st) ==
    IF vs = <<>> THEN st
    ELSE LET v == Head(vs)
         IN  IF st.deg[v] > 0
             THEN Relax(Tail(vs),
                        [deg |-> [st.deg EXCEPT ![v] = @ - 1],
                         pushed |-> IF st.deg[v] = 1 THEN st.pushed \cup {v} ELSE st.pushed])
             ELSE Relax(Tail(vs), st)

\* RemainingNodes with the test "f not in sorted_order" inverted
RemainingNodesPlaced(deg, placed) ==
    {f \in DOMAIN deg : deg[f] > 0 /\ Has(placed, f)}

\* line 777: the unplaced folders with a positive in-degree
RemainingNodes(deg, placed) ==
    {f \in DOMAIN deg : deg[f] > 0 /\ ~Has(placed, f)}

(***************************************************************************)
(* Scenarios: the mod lists, Nexus ids, scraped pages and rule tables the  *)
(* initial states are drawn from.                                          *)
(***************************************************************************)
EmptyMap == [x \in {} |-> x]

\* every arrangement of the mods and the first k separators (separators in
\* name order)
ModListsWith(k) ==
    {l \in Perms(Mods \cup {SepNames[i] : i \in 1..k}) :
        \A i, j \in 1..k : i < j => IndexOf(l, SepNames[i]) < IndexOf(l, SepNames[j])}

ModLists == UNION {ModListsWith(k) : k \in 0..MaxSeps}

\* Nexus ids of the mods, up to renaming: non-decreasing in the name, without
\* gaps, at least two installed ids; 0 is a folder without id
IdAssignments ==
    {f \in [Mods -> 0..Cardinality(Mods)] :
        /\ \A m, n \in Mods : NameRank(m) < NameRank(n) => f[m] <= f[n]
        /\ \A m \in Mods : f[m] <= 1 + Cardinality({f[n] : n \in Mods} \cap 1..(f[m] - 1))
        /\ \A m \in Mods : f[m] > 1 => (f[m] - 1) \in {f[n] : n \in Mods}
        /\ Cardinality({f[n] : n \in Mods} \ {0}) >= 2}

\* the notes of requirement entries, as character sequences
NotePlain == <<>>
NoteOptional == <<"O", "p", "t", "i", "o", "n", "a", "l", " ", "a", "d", "d", "o", "n">>

\* requirement entries [from, url, notes] of the pages of the given ids
EntryUniverse(fromIds, urls, notes) ==
    {[from |-> a, url |-> u, notes |-> n] : a \in fromIds, u \in urls, n \in notes}

EntrySets(fromIds, urls, notes, maxEntries) ==
    {E \in SUBSET EntryUniverse(fromIds, urls, notes) : Cardinality(E) <= maxEntries}

\* the installed ids of an assignment, and the first id that is not installed
InstalledOf(ids) == {ids[m] : m \in DOMAIN ids} \ {0}
Uninstalled(ids) == 1 + Cardinality(InstalledOf(ids))

\* urls of the pages of the installed ids and of one id that is not installed
ModUrls(ids) == {<<"mods", i>> : i \in 1..Uninstalled(ids)}

NoteRank(n) == Len(n)

\* the order of the requirement rows on a page
EntryBefore(e1, e2) ==
    \/ e1.url[1] = "mods" /\ e2.url[1] # "mods"
    \/ e1.url[1] = e2.url[1] /\ e1.url[2] < e2.url[2]
    \/ e1.url = e2.url /\ NoteRank(e1.notes) < NoteRank(e2.notes)

RECURSIVE RowsOf(_)
RowsOf(E) ==
    IF E = {} THEN <<>>
    ELSE LET e == CHOOSE x \in E : \A y \in E \ {x} : EntryBefore(x, y)
         IN  <<[url |-> e.url, notes |-> e.notes]>> \o RowsOf(E \ {e})

\* the scraped pages: every id has a page; cats gives the categories
SiteOf(E, cats) ==
    [id \in Ids |-> [category |-> IF id \in DOMAIN cats THEN cats[id] ELSE "Default",
                     requires |-> RowsOf({e \in E : e.from = id}),
                     error    |-> FALSE]]

RECURSIVE AscendingSeq(_)
AscendingSeq(S) ==
    IF S = {} THEN <<>>
    ELSE LET m == CHOOSE x \in S : \A y \in S : x <= y
         IN  <<m>> \o AscendingSeq(S \ {m})

\* the ids required on the pages of the given ids
RequiredBy(pages, ids) ==
    UNION {{ExtractModIdFromUrl(r.url) : r \in {x \in Range(pages[i].requires) : UrlHasModId(x.url)}} :
            i \in ids}

\* known_mod_data after a network build that fetched the installed pages and
\* one layer of their requirements
KnownAfterBuild(pages, installed) ==
    LET K == AscendingSeq(installed \cup RequiredBy(pages, installed))
    IN  [i \in 1..Len(K) |-> [id |-> K[i], data |-> pages[K[i]]]]

(***************************************************************************)
(* Values of the locals of an operation that is not running.               *)
(***************************************************************************)
NoResult == [order |-> <<>>, broken |-> <<>>, cancelled |-> FALSE]

SortIdle ==
    /\ sortPc = "idle" /\ in_degree = EmptyMap /\ graph = EmptyMap
    /\ ready_queue = {} /\ sorted_order = <<>> /\ broken_cycle_nodes = <<>>
    /\ cancelled = FALSE /\ iterations = 0 /\ run = 0 /\ first_result = NoResult

\* no full analysis is running; the depth setting has its default
NetIdle ==
    /\ UNINSTALLED_MOD_FETCH_DEPTH = 2 /\ netPc = "idle" /\ known_ids = {}
    /\ next_layer = {} /\ depth = 0 /\ reverse_graph = [id \in Ids |-> <<>>]
    /\ missing_report = EmptyMap /\ results = <<>>

CorrIdle ==
    /\ corrPc = "idle" /\ problems_to_fix = {} /\ visit = <<>> /\ visitIdx = 0
    /\ passNo = 0 /\ made_change_in_pass = FALSE /\ proposed_order = <<>>
    /\ moved_mods = {} /\ uiOutcome = "none" /\ setPrioritiesCalls = 0

\* the value None of an Optional[Dict] and a record of get_mod_data
NoneData == [absent |-> TRUE, id |-> 0, error |-> "", requires |-> <<>>]
ModData(id, error, requires) ==
    [absent |-> FALSE, id |-> id, error |-> error, requires |-> requires]

\* no get_mod_data call is in progress; the cache is open and empty, the retry
\* setting has its default
FetchIdle ==
    /\ conn = TRUE /\ MAX_RETRIES = 3 /\ cache = {} /\ fetchPc = "idle"
    /\ fetch_mod_id = 0 /\ attempt = 0 /\ last_error = "None" /\ mod_data = NoneData

\* the dialog after construction with a ready browser, and a worker waiting
\* on the task queue
UiIdle ==
    /\ task_queue = <<>> /\ is_running_analysis = FALSE /\ browser_ready = TRUE
    /\ tabs_current = "single" /\ tree_problems = FALSE
    /\ last_full_analysis_data = "None" /\ processed = 0 /\ uiPc = "idle"
    /\ stop_called = FALSE

WorkerIdle == workerPc = "idle" /\ task = "none" /\ handled = 0

\* the value None of an Optional[Dict] node
NoneNode == [absent |-> TRUE]

\* no tree is being built; the depth setting has its default, no filter is set
TreeIdle ==
    /\ MAX_RECURSION_DEPTH = 10 /\ hide_vr = FALSE /\ hide_optional = FALSE
    /\ hide_recommended = FALSE /\ treePc = "idle" /\ call_stack = <<>>
    /\ root_data = NoneNode

(***************************************************************************)
(* _perform_topological_sort, one action per loop iteration.               *)
(***************************************************************************)
\* lines 751-758: the heap of the folders whose in-degree is 0
InitialReady(list, f2i, known, deg) ==
    {SortKey(list, f2i, known, f) : f \in {g \in DOMAIN deg : deg[g] = 0}}

\* lines 736-760
SortBegin ==
    /\ sortPc = "start"
    /\ LET edges == SortEdges(folder_to_id, id_to_folders, installed_ids,
                              replacement_map, ignore_requirements_of_ids, full_graph)
           deg == [f \in Folders(folder_to_id) |-> InDegreeOf(edges, f)]
       IN  /\ in_degree' = deg
           /\ graph' = [f \in Folders(folder_to_id) |-> DependentsOf(edges, f)]
           /\ ready_queue' = InitialReady(modList, folder_to_id, known_mod_data, deg)
    /\ sorted_order' = <<>>
    /\ broken_cycle_nodes' = <<>>
    /\ sortPc' = "loop"
    /\ UNCHANGED <<cancelled, iterations, run, first_result>>
    /\ UNCHANGED <<fetchVars, uiVars, workerVars, scenarioVars, mapVars, netVars, stop_requested, analysisVars, corrVars>>
    /\ UNCHANGED treeVars

\* the function returns: its locals are gone, its results stay
SortReturns(order, broken, wasCancelled) ==
    /\ sorted_order' = order
    /\ broken_cycle_nodes' = broken
    /\ cancelled' = wasCancelled
    /\ in_degree' = EmptyMap /\ graph' = EmptyMap /\ ready_queue' = {}
    /\ sortPc' = "done"

\* line 762: the stop flag is seen at the top of an iteration
SortCancel ==
    /\ sortPc = "loop"
    /\ Len(sorted_order) < Len(folder_to_id)
    /\ stop_requested
    /\ SortReturns(<<>>, <<>>, TRUE)
    /\ iterations' = iterations + 1
    /\ UNCHANGED <<run, first_result>>
    /\ UNCHANGED <<fetchVars, uiVars, workerVars, scenarioVars, mapVars, netVars, stop_requested, analysisVars, corrVars>>
    /\ UNCHANGED treeVars

\* lines 763-775: pop the smallest entry, place it, relax its dependents
SortPop ==
    /\ sortPc = "loop"
    /\ Len(sorted_order) < Len(folder_to_id)
    /\ ~stop_requested
    /\ ready_queue # {}
    /\ \E k \in Smallest(ready_queue) :
         LET u_folder == k[3]
             st == Relax(graph[u_folder], [deg |-> in_degree, pushed |-> {}])
         IN  IF Has(sorted_order, u_folder)
             THEN /\ ready_queue' = ready_queue \ {k}
                  /\ UNCHANGED <<sorted_order, in_degree>>
             ELSE /\ sorted_order' = Append(sorted_order, u_folder)
                  /\ in_degree' = st.deg
                  /\ ready_queue' = (ready_queue \ {k})
                        \cup {SortKey(modList, folder_to_id, known_mod_data, v) : v \in st.pushed}
    /\ iterations' = iterations + 1
    /\ UNCHANGED <<sortPc, graph, broken_cycle_nodes, cancelled, run, first_result>>
    /\ UNCHANGED <<fetchVars, uiVars, workerVars, scenarioVars, mapVars, netVars, stop_requested, analysisVars, corrVars>>
    /\ UNCHANGED treeVars

\* lines 776-793: the heap is empty; break a cycle at the smallest stuck folder,
\* or leave the loop when nothing is stuck
SortBreak ==
    /\ sortPc = "loop"
    /\ Len(sorted_order) < Len(folder_to_id)
    /\ ~stop_requested
    /\ ready_queue = {}
    /\ LET remaining_nodes == RemainingNodes(in_degree, sorted_order)
       IN  IF remaining_nodes = {}
           THEN /\ SortReturns(sorted_order, broken_cycle_nodes, FALSE)
           ELSE \E k \in Smallest({SortKey(modList, folder_to_id, known_mod_data, f) :
                                    f \in remaining_nodes}) :
                  /\ broken_cycle_nodes' = Append(broken_cycle_nodes, k[3])
                  /\ in_degree' = [in_degree EXCEPT ![k[3]] = 0]
                  /\ ready_queue' = {k}
                  /\ UNCHANGED <<sortPc, graph, sorted_order, cancelled>>
    /\ iterations' = iterations + 1
    /\ UNCHANGED <<run, first_result>>
    /\ UNCHANGED <<fetchVars, uiVars, workerVars, scenarioVars, mapVars, netVars, stop_requested, analysisVars, corrVars>>
    /\ UNCHANGED treeVars

\* lines 761, 795-796: every folder is placed
SortReturn ==
    /\ sortPc = "loop"
    /\ Len(sorted_order) >= Len(folder_to_id)
    /\ SortReturns(sorted_order, broken_cycle_nodes, FALSE)
    /\ UNCHANGED <<iterations, run, first_result>>
    /\ UNCHANGED <<fetchVars, uiVars, workerVars, scenarioVars, mapVars, netVars, stop_requested, analysisVars, corrVars>>
    /\ UNCHANGED treeVars

\* WorkerThread.request_stop, called on the UI thread while the sort runs
RequestStop ==
    /\ \/ sortPc \in {"start", "loop"}
       \/ netPc \in {"phase1", "layers", "missing"}
       \/ fetchPc = "attempt"
       \/ treePc = "running"
    /\ ~stop_requested
    /\ stop_requested' = TRUE
    /\ UNCHANGED <<fetchVars, uiVars, workerVars, scenarioVars, mapVars, netVars, analysisVars, sortVars, corrVars>>
    /\ UNCHANGED treeVars

\* a second analysis of the same profile after a completed one:
\* WorkerThread.run clears the stop flag before the task, the sort starts again
\* from the same inputs
SortAgain ==
    /\ sortPc = "done"
    /\ run = 1
    /\ ~cancelled
    /\ first_result' = [order |-> sorted_order, broken |-> broken_cycle_nodes,
                        cancelled |-> cancelled]
    /\ run' = 2
    /\ stop_requested' = FALSE
    /\ sortPc' = "start"
    /\ sorted_order' = <<>> /\ broken_cycle_nodes' = <<>>
    /\ cancelled' = FALSE /\ iterations' = 0
    /\ UNCHANGED <<in_degree, graph, ready_queue>>
    /\ UNCHANGED <<fetchVars, uiVars, workerVars, scenarioVars, mapVars, netVars, analysisVars, corrVars>>
    /\ UNCHANGED treeVars

(***************************************************************************)
(* The specification of the topological sort: a profile whose network is   *)
(* built, sorted twice.                                                    *)
(***************************************************************************)
SortCategories == {EmptyMap, (2 :> "Utilities")}

\* rule tables: none, an id that is not installed replaced by an installed one,
\* an installed id replaced by another, an id whose requirements are ignored
RuleTables(ids) ==
    {[rmap |-> EmptyMap, ignReq |-> {}],
     [rmap |-> (Uninstalled(ids) :> 1), ignReq |-> {}],
     [rmap |-> (2 :> 1), ignReq |-> {}],
     [rmap |-> EmptyMap, ignReq |-> {1}]}

\* categories and rules vary one at a time
SortFlavours(ids) ==
    {fl \in [cats : SortCategories, rules : RuleTables(ids)] :
        fl.cats = EmptyMap \/ (fl.rules.rmap = EmptyMap /\ fl.rules.ignReq = {})}

InitSort ==
    /\ modList \in ModListsWith(0)
    /\ nexusId \in IdAssignments
    /\ \E fl \in SortFlavours(nexusId) :
         /\ replacement_map = fl.rules.rmap
         /\ ignore_requirements_of_ids = fl.rules.ignReq
         /\ \E E \in EntrySets(InstalledOf(nexusId), ModUrls(nexusId), {NotePlain},
                                MaxSortEdges) :
              site = SiteOf(E, fl.cats)
    /\ ignore_ids = {}
    /\ folder_to_id = ParseFolderToId(modList, nexusId)
    /\ id_to_folders = ParseIdToFolders(folder_to_id)
    /\ installed_ids = ParseInstalledIds(folder_to_id)
    /\ stop_requested = FALSE
    /\ known_mod_data = KnownAfterBuild(site, installed_ids)
    /\ full_graph = BuildGraph(known_mod_data, ignore_requirements_of_ids)
    /\ load_order_problems = <<>>
    /\ sortPc = "start" /\ in_degree = EmptyMap /\ graph = EmptyMap
    /\ ready_queue = {} /\ sorted_order = <<>> /\ broken_cycle_nodes = <<>>
    /\ cancelled = FALSE /\ iterations = 0 /\ run = 1 /\ first_result = NoResult
    /\ CorrIdle
    /\ NetIdle
    /\ FetchIdle /\ UiIdle /\ WorkerIdle /\ TreeIdle

NextSort ==
    \/ SortBegin \/ SortCancel \/ SortPop \/ SortBreak \/ SortReturn
    \/ RequestStop \/ SortAgain

SpecSort == InitSort /\ [][NextSort]_vars

(***************************************************************************)
(* correct_load_order (src/ui/main_window.py), one action per dependent    *)
(* visited.                                                                *)
(***************************************************************************)
\* 0-based indices of the separators of a list
SeparatorIndices(list) == {i - 1 : i \in {j \in DOMAIN list : isSeparator(list[j])}}

Min(S) == CHOOSE x \in S : \A y \in S : x <= y
Max(S) == CHOOSE x \in S : \A y \in S : x >= y
Abs(x) == IF x < 0 THEN -x ELSE x

\* boundaries whose every group reaches to the end of the list
SeparatorBoundariesToListEnd(list) ==
    [sep \in {NoSeparator} \cup {x \in Range(list) : isSeparator(x)} |->
        [start |-> IF sep = NoSeparator THEN 0 ELSE IndexOf(list, sep) + 1,
         end   |-> Len(list)]]

\* lines 1020-1033: separator_boundaries, the [start, end] of every group
SeparatorBoundaries(list) ==
    [sep \in {NoSeparator} \cup {x \in Range(list) : isSeparator(x)} |->
        IF sep = NoSeparator
        THEN [start |-> 0,
              end   |-> IF SeparatorIndices(list) = {} THEN Len(list) ELSE -1]
        ELSE LET later == {i \in SeparatorIndices(list) : i > IndexOf(list, sep)}
             IN  [start |-> IndexOf(list, sep) + 1,
                  end   |-> IF later = {} THEN Len(list) ELSE Min(later)]]

\* lines 1025-1032 and 1054: separator_map.get(dependent_mod, no separator)
SeparatorMapGet(list, name) ==
    IF Has(list, name) /\ ~isSeparator(name)
    THEN SeparatorBefore(list, IndexOf(list, name))
    ELSE NoSeparator

\* lines 1048-1052: the highest index of a selected provider of d, -1 without
LastProviderPos(order, fix, d) ==
    LET present == {p \in {q[2] : q \in {x \in fix : x[1] = d}} : Has(order, p)}
    IN  IF present = {} THEN -1 ELSE Max({IndexOf(order, p) : p \in present})

\* line 1058
SearchStart(sep_start, last_provider_pos) == Max({sep_start, last_provider_pos + 1})

\* a candidate search that keeps the most disruptive candidate
ImprovesTowardsWorse(best, i, disruption, original_pos) ==
    ~best.found \/ disruption > best.score

\* lines 1069-1076: does candidate i with this disruption replace the best so far
Improves(best, i, disruption, original_pos) ==
    \/ ~best.found
    \/ disruption < best.score
    \/ disruption = best.score /\ Abs(i - original_pos) < Abs(best.pos - original_pos)

RECURSIVE ScanCandidates(_, _, _, _, _, _)
\* lines 1065-1076: candidates i..hi in turn; best = [found, pos, score, order]
ScanCandidates(temp_order, d, original_pos, i, hi, best) ==
    IF i > hi THEN best
    ELSE LET candidate_order == InsertAt(temp_order, i, d)
             disruption == CalculateDisruptionScore(candidate_order, folder_to_id,
                              id_to_folders, installed_ids, replacement_map,
                              ignore_requirements_of_ids, full_graph)
         IN  ScanCandidates(temp_order, d, original_pos, i + 1, hi,
                IF Improves(best, i, disruption, original_pos)
                THEN [found |-> TRUE, pos |-> i, score |-> disruption,
                      order |-> candidate_order]
                ELSE best)

NoBest == [found |-> FALSE, pos |-> -1, score |-> 0, order |-> <<>>]

\* lines 1041-1080: the working order after visiting the dependent d
VisitDependent(original, order, fix, d) ==
    IF ~Has(order, d) THEN order
    ELSE LET original_pos == IndexOf(order, d)
             bounds == SeparatorBoundaries(original)[SeparatorMapGet(original, d)]
             search_start == SearchStart(bounds.start, LastProviderPos(order, fix, d))
             best == ScanCandidates(PopAt(order, original_pos), d, original_pos,
                                    search_start, bounds.end, NoBest)
         IN  IF best.found /\ best.order # order THEN best.order ELSE order

RECURSIVE PassOver(_, _, _, _, _)
\* lines 1040-1080: one pass from the k-th dependent of the visiting order on;
\* st = [order, changed] is the working order and made_change_in_pass
PassOver(original, fix, v, k, st) ==
    IF k > Len(v) THEN st
    ELSE LET next_order == VisitDependent(original, st.order, fix, v[k])
         IN  PassOver(original, fix, v, k + 1,
                      [order |-> next_order,
                       changed |-> st.changed \/ next_order # st.order])

RECURSIVE RunPasses(_, _, _, _, _)
\* lines 1038-1083: at most n more passes, left after a pass without a change
RunPasses(original, fix, v, n, order) ==
    IF n = 0 THEN order
    ELSE LET st == PassOver(original, fix, v, 1, [order |-> order, changed |-> FALSE])
         IN  IF st.changed THEN RunPasses(original, fix, v, n - 1, st.order)
             ELSE st.order

\* lines 1035-1083: proposed_order of a correction that visits mods_to_move in
\* the order v
ProposedOrder(original, fix, v) == RunPasses(original, fix, v, Len(v) + 2, original)

\* a comparison that skips the first position
MovedModsAfterFirst(original, proposed) ==
    {original[i] : i \in {j \in DOMAIN original : j > 1 /\ proposed[j] # original[j]}}

\* lines 1085-1086
MovedMods(original, proposed) ==
    {original[i] : i \in {j \in DOMAIN original : proposed[j] # original[j]}}
    \cup {proposed[i] : i \in {j \in DOMAIN proposed : original[j] # proposed[j]}}

\* generate_sorted_load_order, line 247: the diagnostics of the current order
Diagnose ==
    /\ corrPc = "analysis"
    /\ load_order_problems' = AnalyzeCurrentLoadOrder(modList, folder_to_id,
            id_to_folders, installed_ids, replacement_map,
            ignore_requirements_of_ids, full_graph)
    /\ corrPc' = "report"
    /\ UNCHANGED <<known_mod_data, full_graph>>
    /\ UNCHANGED <<problems_to_fix, visit, visitIdx, passNo, made_change_in_pass,
                   proposed_order, moved_mods, uiOutcome, setPrioritiesCalls>>
    /\ UNCHANGED <<fetchVars, uiVars, workerVars, scenarioVars, mapVars, netVars, stop_requested, sortVars>>
    /\ UNCHANGED treeVars

\* the (dependent, provider) pairs of the items of the diagnosis report
ReportedPairs(problems) ==
    {<<problems[i].mod_folder, problems[i].provider_folder>> : i \in DOMAIN problems}

\* lines 992-1036: the user picks items of the diagnosis report and asks for the
\* correction; the set mods_to_move is visited in some fixed order
CorrectStart ==
    /\ corrPc = "report"
    /\ \E selected \in SUBSET ReportedPairs(load_order_problems) :
         /\ problems_to_fix' = selected
         /\ IF selected = {}
            THEN /\ uiOutcome' = "invalid_selection"
                 /\ corrPc' = "done"
                 /\ UNCHANGED <<visit, visitIdx, passNo, proposed_order>>
            ELSE /\ \E v \in Perms({q[1] : q \in selected}) : visit' = v
                 /\ proposed_order' = modList
                 /\ passNo' = 1
                 /\ visitIdx' = 1
                 /\ corrPc' = "pass"
                 /\ UNCHANGED uiOutcome
    /\ made_change_in_pass' = FALSE
    /\ UNCHANGED <<moved_mods, setPrioritiesCalls>>
    /\ UNCHANGED <<fetchVars, uiVars, workerVars, scenarioVars, mapVars, netVars, stop_requested, analysisVars, sortVars>>
    /\ UNCHANGED treeVars

\* lines 1040-1080: one dependent of the pass
CorrVisit ==
    /\ corrPc = "pass"
    /\ visitIdx <= Len(visit)
    /\ LET next_order == VisitDependent(modList, proposed_order, problems_to_fix,
                                        visit[visitIdx])
       IN  /\ proposed_order' = next_order
           /\ made_change_in_pass' = (made_change_in_pass \/ next_order # proposed_order)
    /\ visitIdx' = visitIdx + 1
    /\ UNCHANGED <<corrPc, problems_to_fix, visit, passNo, moved_mods, uiOutcome,
                   setPrioritiesCalls>>
    /\ UNCHANGED <<fetchVars, uiVars, workerVars, scenarioVars, mapVars, netVars, stop_requested, analysisVars, sortVars>>
    /\ UNCHANGED treeVars

\* CorrEndPass without the break of lines 1082-1083: another pass follows
\* also after a pass without a change
CorrEndPassIgnoringNoChange ==
    /\ corrPc = "pass"
    /\ visitIdx > Len(visit)
    /\ IF passNo < Len(visit) + 2
       THEN /\ passNo' = passNo + 1
            /\ visitIdx' = 1
            /\ made_change_in_pass' = FALSE
            /\ UNCHANGED <<corrPc, moved_mods, uiOutcome>>
       ELSE /\ moved_mods' = MovedMods(modList, proposed_order)
            /\ IF MovedMods(modList, proposed_order) = {}
               THEN uiOutcome' = "no_change" /\ corrPc' = "done"
               ELSE uiOutcome' = "proposal" /\ corrPc' = "dialog"
            /\ UNCHANGED <<passNo, visitIdx, made_change_in_pass>>
    /\ UNCHANGED <<problems_to_fix, visit, proposed_order, setPrioritiesCalls>>
    /\ UNCHANGED <<fetchVars, uiVars, workerVars, scenarioVars, mapVars, netVars,
                   stop_requested, analysisVars, sortVars>>
    /\ UNCHANGED treeVars

\* lines 1038, 1082-1096: the end of a pass: another pass, or the result
CorrEndPass ==
    /\ corrPc = "pass"
    /\ visitIdx > Len(visit)
    /\ IF made_change_in_pass /\ passNo < Len(visit) + 2
       THEN /\ passNo' = passNo + 1
            /\ visitIdx' = 1
            /\ made_change_in_pass' = FALSE
            /\ UNCHANGED <<corrPc, moved_mods, uiOutcome>>
       ELSE /\ moved_mods' = MovedMods(modList, proposed_order)
            /\ IF MovedMods(modList, proposed_order) = {}
               THEN uiOutcome' = "no_change" /\ corrPc' = "done"
               ELSE uiOutcome' = "proposal" /\ corrPc' = "dialog"
            /\ UNCHANGED <<passNo, visitIdx, made_change_in_pass>>
    /\ UNCHANGED <<problems_to_fix, visit, proposed_order, setPrioritiesCalls>>
    /\ UNCHANGED <<fetchVars, uiVars, workerVars, scenarioVars, mapVars, netVars, stop_requested, analysisVars, sortVars>>
    /\ UNCHANGED treeVars

\* lines 1097-1113: the user accepts the proposal, setPriorities applies it
DialogAccept ==
    /\ corrPc = "dialog"
    /\ modList' = proposed_order
    /\ setPrioritiesCalls' = setPrioritiesCalls + 1
    /\ uiOutcome' = "applied"
    /\ corrPc' = "done"
    /\ UNCHANGED <<nexusId, site, ignore_ids, replacement_map, ignore_requirements_of_ids>>
    /\ UNCHANGED <<problems_to_fix, visit, visitIdx, passNo, made_change_in_pass,
                   proposed_order, moved_mods>>
    /\ UNCHANGED <<fetchVars, uiVars, workerVars>>
    /\ UNCHANGED <<mapVars, netVars, stop_requested, analysisVars, sortVars>>
    /\ UNCHANGED treeVars

\* line 1097: the user closes the proposal
DialogReject ==
    /\ corrPc = "dialog"
    /\ uiOutcome' = "rejected"
    /\ corrPc' = "done"
    /\ UNCHANGED <<problems_to_fix, visit, visitIdx, passNo, made_change_in_pass,
                   proposed_order, moved_mods, setPrioritiesCalls>>
    /\ UNCHANGED <<fetchVars, uiVars, workerVars, scenarioVars, mapVars, netVars, stop_requested, analysisVars, sortVars>>
    /\ UNCHANGED treeVars

(***************************************************************************)
(* The specification of the diagnostics and the corrector: a profile whose *)
(* network is built is diagnosed, then the user asks for a correction.     *)
(***************************************************************************)
InstalledUrls(ids) == {<<"mods", i>> : i \in InstalledOf(ids)}

CorrRules == {[rmap |-> EmptyMap, ignReq |-> {}]}

InitCorr ==
    /\ modList \in ModLists
    /\ nexusId \in IdAssignments
    /\ \E rules \in CorrRules :
         /\ replacement_map = rules.rmap
         /\ ignore_requirements_of_ids = rules.ignReq
    /\ \E E \in EntrySets(InstalledOf(nexusId), InstalledUrls(nexusId), {NotePlain},
                          MaxEdges) :
         site = SiteOf(E, EmptyMap)
    /\ ignore_ids = {}
    /\ folder_to_id = ParseFolderToId(modList, nexusId)
    /\ id_to_folders = ParseIdToFolders(folder_to_id)
    /\ installed_ids = ParseInstalledIds(folder_to_id)
    /\ stop_requested = FALSE
    /\ known_mod_data = KnownAfterBuild(site, installed_ids)
    /\ full_graph = BuildGraph(known_mod_data, ignore_requirements_of_ids)
    /\ load_order_problems = <<>>
    /\ SortIdle
    /\ corrPc = "analysis" /\ problems_to_fix = {} /\ visit = <<>> /\ visitIdx = 0
    /\ passNo = 0 /\ made_change_in_pass = FALSE /\ proposed_order = <<>>
    /\ moved_mods = {} /\ uiOutcome = "none" /\ setPrioritiesCalls = 0
    /\ NetIdle
    /\ FetchIdle /\ UiIdle /\ WorkerIdle /\ TreeIdle

NextCorr ==
    \/ Diagnose \/ CorrectStart \/ CorrVisit \/ CorrEndPass
    \/ DialogAccept \/ DialogReject

SpecCorr == InitCorr /\ [][NextCorr]_vars

(***************************************************************************)
(* The specification of the diagnostics alone: profiles with and without a *)
(* separator, under every rule table, are diagnosed.                       *)
(***************************************************************************)
InitDiag ==
    /\ modList \in ModListsWith(0) \cup ModListsWith(1)
    /\ nexusId \in IdAssignments
    /\ \E rules \in RuleTables(nexusId) :
         /\ replacement_map = rules.rmap
         /\ ignore_requirements_of_ids = rules.ignReq
    /\ \E E \in EntrySets(InstalledOf(nexusId), ModUrls(nexusId), {NotePlain}, MaxEdges) :
         site = SiteOf(E, EmptyMap)
    /\ ignore_ids = {}
    /\ folder_to_id = ParseFolderToId(modList, nexusId)
    /\ id_to_folders = ParseIdToFolders(folder_to_id)
    /\ installed_ids = ParseInstalledIds(folder_to_id)
    /\ stop_requested = FALSE
    /\ known_mod_data = KnownAfterBuild(site, installed_ids)
    /\ full_graph = BuildGraph(known_mod_data, ignore_requirements_of_ids)
    /\ load_order_problems = <<>>
    /\ SortIdle
    /\ corrPc = "analysis" /\ problems_to_fix = {} /\ visit = <<>> /\ visitIdx = 0
    /\ passNo = 0 /\ made_change_in_pass = FALSE /\ proposed_order = <<>>
    /\ moved_mods = {} /\ uiOutcome = "none" /\ setPrioritiesCalls = 0
    /\ NetIdle
    /\ FetchIdle /\ UiIdle /\ WorkerIdle /\ TreeIdle

NextDiag == Diagnose

SpecDiag == InitDiag /\ [][NextDiag]_vars

(***************************************************************************)
(* Notes and tags: str.lower() and the substring tests of the tag rules.   *)
(***************************************************************************)
UpperCase == <<"A", "B", "C", "D", "E", "F", "G", "H", "I", "J", "K", "L", "M",
               "N", "O", "P", "Q", "R", "S", "T", "U", "V", "W", "X", "Y", "Z">>
LowerCase == <<"a", "b", "c", "d", "e", "f", "g", "h", "i", "j", "k", "l", "m",
               "n", "o", "p", "q", "r", "s", "t", "u", "v", "w", "x", "y", "z">>

LowerChar(c) ==
    IF \E i \in DOMAIN UpperCase : UpperCase[i] = c
    THEN LowerCase[CHOOSE i \in DOMAIN UpperCase : UpperCase[i] = c]
    ELSE c

Lower(str) == [i \in DOMAIN str |-> LowerChar(str[i])]

\* needle in hay
Contains(hay, needle) ==
    \E i \in 0..(Len(hay) - Len(needle)) : SubSeq(hay, i + 1, i + Len(needle)) = needle

OptionalKeywords ==
    {<<"o", "p", "t", "i", "o", "n", "a", "l">>,
     <<"a", "d", "d", "o", "n">>,
     <<"n", "o", "t", " ", "m", "a", "n", "d", "a", "t", "o", "r", "y">>,
     <<"n", "o", "t", " ", "n", "e", "e", "d", "e", "d">>,
     <<"n", "o", "t", " ", "r", "e", "q", "u", "i", "r", "e", "d">>}

\* _identify_missing_dependencies, lines 714-718
TagsOfNotes(notes) ==
    (IF Contains(Lower(notes), <<"v", "r">>) THEN {"vr"} ELSE {})
    \cup (IF \E k \in OptionalKeywords : Contains(Lower(notes), k) THEN {"optional"} ELSE {})
    \cup (IF Contains(Lower(notes), <<"r", "e", "c", "o", "m", "m", "e", "n", "d">>)
          THEN {"recommended"} ELSE {})

\* the order of str on the characters that occur in notes
CharCode(c) ==
    IF c = " " THEN 0
    ELSE IF \E i \in DOMAIN UpperCase : UpperCase[i] = c
    THEN CHOOSE i \in DOMAIN UpperCase : UpperCase[i] = c
    ELSE 26 + (CHOOSE i \in DOMAIN LowerCase : LowerCase[i] = c)

RECURSIVE StrLess(_, _)
StrLess(a, b) ==
    IF b = <<>> THEN FALSE
    ELSE IF a = <<>> THEN TRUE
    ELSE IF Head(a) # Head(b) THEN CharCode(Head(a)) < CharCode(Head(b))
    ELSE StrLess(Tail(a), Tail(b))

(***************************************************************************)
(* _build_full_dependency_network and _identify_missing_dependencies.      *)
(***************************************************************************)
\* known_mod_data extended by the pages of the ids of a layer
FetchAll(known, pages, ids) ==
    known \o [i \in 1..Cardinality(ids) |->
                [id |-> AscendingSeq(ids)[i], data |-> pages[AscendingSeq(ids)[i]]]]

\* ReverseRowsOf with the test of ignore_requirements_of_ids (line 695) left out
ReverseRowsOfAnyMod(known, ignReq, k, target) ==
    Flatten([r \in 1..Len(known[k].data.requires) |->
        IF UrlHasModId(known[k].data.requires[r].url)
           /\ ExtractModIdFromUrl(known[k].data.requires[r].url) = target
        THEN <<[id |-> known[k].id, notes |-> known[k].data.requires[r].notes]>>
        ELSE <<>>])

\* lines 694-701: the mirrored edges of the pages of one known mod
ReverseRowsOf(known, ignReq, k, target) ==
    IF known[k].id \in ignReq THEN <<>>
    ELSE Flatten([r \in 1..Len(known[k].data.requires) |->
            IF UrlHasModId(known[k].data.requires[r].url)
               /\ ExtractModIdFromUrl(known[k].data.requires[r].url) = target
            THEN <<[id |-> known[k].id, notes |-> known[k].data.requires[r].notes]>>
            ELSE <<>>])

BuildReverseGraph(known, ignReq) ==
    [target \in Ids |->
        Flatten([k \in 1..Len(known) |-> ReverseRowsOf(known, ignReq, k, target)])]

\* known_mod_data.get(id, {}).get("name", "ID <id>")
NameOf(known, id) == [id |-> id, scraped |-> id \in KnownIds(known)]

\* line 705
Unmet(all_nodes, rmap, installed, ignored) ==
    {nid \in all_nodes : ~IsDependencySatisfied(rmap, installed, nid) /\ nid \notin ignored}

\* lines 710-721: the (folder, notes, tags) of the installed requirers of an id
ReqByInstalled(rows, i2f, installed, ignReq) ==
    UNION {{[folder |-> f, notes |-> rows[k].notes, tags |-> TagsOfNotes(rows[k].notes)] :
                f \in Range(i2f[rows[k].id])} :
            k \in {j \in DOMAIN rows : rows[j].id \notin ignReq /\ rows[j].id \in installed}}

\* lines 722-723: the (name, id) of the requirers that are missing themselves
ReqByMissing(rows, known, unmet, rmap, installed, ignReq) ==
    {[name |-> NameOf(known, rows[k].id), id |-> rows[k].id] :
        k \in {j \in DOMAIN rows :
                /\ rows[j].id \notin ignReq
                /\ rows[j].id \notin installed
                /\ GetEffectiveId(rmap, rows[j].id) \in unmet}}

InstalledEntryLess(a, b) ==
    \/ NameRank(a.folder) < NameRank(b.folder)
    \/ a.folder = b.folder /\ StrLess(a.notes, b.notes)

RECURSIVE SortedInstalled(_)
\* sorted(req_by_installed)
SortedInstalled(S) ==
    IF S = {} THEN <<>>
    ELSE LET m == CHOOSE x \in S : \A y \in S \ {x} : ~InstalledEntryLess(y, x)
         IN  <<m>> \o SortedInstalled(S \ {m})

RECURSIVE SortedMissing(_)
\* sorted(list(req_by_missing))
SortedMissing(S) ==
    IF S = {} THEN <<>>
    ELSE LET m == CHOOSE x \in S : \A y \in S : x.id <= y.id
         IN  <<m>> \o SortedMissing(S \ {m})

\* lines 727-730: the entry of one unmet id
ReportEntry(u, rows, known, unmet, rmap, i2f, installed, ignReq) ==
    [name |-> NameOf(known, u),
     required_by_installed |-> SortedInstalled(ReqByInstalled(rows, i2f, installed, ignReq)),
     required_by_missing |->
        SortedMissing(ReqByMissing(rows, known, unmet, rmap, installed, ignReq)),
     effective_id |-> GetEffectiveId(rmap, u),
     has_effective_name |-> (u # GetEffectiveId(rmap, u)),
     effective_name |-> NameOf(known, GetEffectiveId(rmap, u))]

\* lines 704-732
IdentifyMissingDependencies(all_nodes, rgraph, known, rmap, i2f, installed, ignored, ignReq) ==
    [u \in {n \in Unmet(all_nodes, rmap, installed, ignored) :
              \/ ReqByInstalled(rgraph[n], i2f, installed, ignReq) # {}
              \/ ReqByMissing(rgraph[n], known,
                              Unmet(all_nodes, rmap, installed, ignored),
                              rmap, installed, ignReq) # {}} |->
        ReportEntry(u, rgraph[u], known, Unmet(all_nodes, rmap, installed, ignored),
                    rmap, i2f, installed, ignReq)]

\* the terminal messages of _put_result
ErrorMessage == [type |-> "error", data |-> "none"]
CompleteMessage(data) == [type |-> "analysis_complete", data |-> data]

\* lines 223-230: the browser check, the parse of the profile and its early exits
FullStart ==
    /\ netPc = "start"
    /\ \E ready \in BOOLEAN :
         IF ~ready
         THEN /\ results' = results \o <<ErrorMessage, CompleteMessage("None")>>
              /\ netPc' = "done"
              /\ UNCHANGED mapVars
         ELSE /\ folder_to_id' = ParseFolderToId(modList, nexusId)
              /\ id_to_folders' = ParseIdToFolders(ParseFolderToId(modList, nexusId))
              /\ installed_ids' = ParseInstalledIds(ParseFolderToId(modList, nexusId))
              /\ IF ParseFolderToId(modList, nexusId) = <<>>
                 THEN results' = results \o <<CompleteMessage("no_mods")>> /\ netPc' = "done"
                 ELSE results' = results /\ netPc' = "phase1"
    /\ UNCHANGED <<UNINSTALLED_MOD_FETCH_DEPTH, known_ids, next_layer, depth,
                   reverse_graph, missing_report>>
    /\ UNCHANGED <<fetchVars, uiVars, workerVars, scenarioVars, stop_requested, analysisVars, sortVars, corrVars>>
    /\ UNCHANGED treeVars

\* the mod ids that the pages of the given known mods require
RequiredIds(known, from) ==
    UNION {{known[k].data.requires[r].url[2] :
                r \in {j \in DOMAIN known[k].data.requires :
                         UrlHasModId(known[k].data.requires[j].url)}} :
            k \in {j \in DOMAIN known : known[j].id \in from}}

\* lines 653-673 (and 233-235 when the stop flag ends it): the installed pages
NetPhase1 ==
    /\ netPc = "phase1"
    /\ IF stop_requested
       THEN /\ results' = results \o <<CompleteMessage("void")>>
            /\ netPc' = "done"
            /\ UNCHANGED <<known_mod_data, known_ids, next_layer>>
       ELSE /\ known_mod_data' = FetchAll(<<>>, site, installed_ids)
            /\ known_ids' = installed_ids
            /\ next_layer' = RequiredIds(FetchAll(<<>>, site, installed_ids),
                                         installed_ids \ ignore_requirements_of_ids)
                             \ installed_ids
            /\ netPc' = "layers"
            /\ UNCHANGED results
    /\ depth' = 0
    /\ UNCHANGED <<UNINSTALLED_MOD_FETCH_DEPTH, reverse_graph, missing_report>>
    /\ UNCHANGED <<full_graph, load_order_problems>>
    /\ UNCHANGED <<fetchVars, uiVars, workerVars, scenarioVars, mapVars, stop_requested, sortVars, corrVars>>
    /\ UNCHANGED treeVars

\* lines 675-691: one layer of pages of mods that are not installed; a stop
\* request that arrives while the layer is fetched (lines 682-683, 463) leaves
\* only the pages fetched before it
NetLayer ==
    /\ netPc = "layers"
    /\ depth < UNINSTALLED_MOD_FETCH_DEPTH /\ ~stop_requested /\ next_layer # {}
    /\ known_ids' = known_ids \cup next_layer
    /\ \E fetched \in SUBSET next_layer :
         /\ stop_requested' = (fetched # next_layer)
         /\ known_mod_data' = FetchAll(known_mod_data, site, fetched)
         /\ next_layer' = IF depth < UNINSTALLED_MOD_FETCH_DEPTH - 1
                          THEN RequiredIds(FetchAll(<<>>, site, fetched), fetched)
                               \ (known_ids \cup next_layer)
                          ELSE {}
    /\ depth' = depth + 1
    /\ UNCHANGED <<UNINSTALLED_MOD_FETCH_DEPTH, netPc, reverse_graph, missing_report,
                   results>>
    /\ UNCHANGED <<full_graph, load_order_problems>>
    /\ UNCHANGED <<fetchVars, uiVars, workerVars, scenarioVars, mapVars, sortVars, corrVars>>
    /\ UNCHANGED treeVars

\* a caller that hands the network on without looking at the stop flag
NetGraphWithoutStopCheck ==
    /\ netPc = "layers"
    /\ ~(depth < UNINSTALLED_MOD_FETCH_DEPTH /\ ~stop_requested /\ next_layer # {})
    /\ full_graph' = BuildGraph(known_mod_data, ignore_requirements_of_ids)
    /\ reverse_graph' = BuildReverseGraph(known_mod_data, ignore_requirements_of_ids)
    /\ results' = results /\ netPc' = "missing"
    /\ UNCHANGED <<UNINSTALLED_MOD_FETCH_DEPTH, known_ids, next_layer, depth,
                   missing_report>>
    /\ UNCHANGED <<known_mod_data, load_order_problems>>
    /\ UNCHANGED <<fetchVars, uiVars, workerVars, scenarioVars, mapVars, stop_requested, sortVars, corrVars>>
    /\ UNCHANGED treeVars

\* lines 693-702 and 232-236: the layers are over; the graph and its mirror
NetGraph ==
    /\ netPc = "layers"
    /\ ~(depth < UNINSTALLED_MOD_FETCH_DEPTH /\ ~stop_requested /\ next_layer # {})
    /\ full_graph' = BuildGraph(known_mod_data, ignore_requirements_of_ids)
    /\ reverse_graph' = BuildReverseGraph(known_mod_data, ignore_requirements_of_ids)
    /\ IF stop_requested
       THEN results' = results \o <<CompleteMessage("void")>> /\ netPc' = "done"
       ELSE results' = results /\ netPc' = "missing"
    /\ UNCHANGED <<UNINSTALLED_MOD_FETCH_DEPTH, known_ids, next_layer, depth,
                   missing_report>>
    /\ UNCHANGED <<known_mod_data, load_order_problems>>
    /\ UNCHANGED <<fetchVars, uiVars, workerVars, scenarioVars, mapVars, stop_requested, sortVars, corrVars>>
    /\ UNCHANGED treeVars

\* lines 237-241: the missing-dependency report
IdentifyMissing ==
    /\ netPc = "missing"
    /\ missing_report' = IdentifyMissingDependencies(known_ids, reverse_graph,
            known_mod_data, replacement_map, id_to_folders, installed_ids,
            ignore_ids, ignore_requirements_of_ids)
    /\ IF stop_requested
       THEN /\ results' = results \o <<CompleteMessage("void")>>
            /\ netPc' = "done"
            /\ UNCHANGED sortPc
       ELSE /\ results' = results
            /\ netPc' = "sort"
            /\ sortPc' = "start"
    /\ UNCHANGED <<UNINSTALLED_MOD_FETCH_DEPTH, known_ids, next_layer, depth,
                   reverse_graph>>
    /\ UNCHANGED <<in_degree, graph, ready_queue, sorted_order, broken_cycle_nodes,
                   cancelled, iterations, run, first_result>>
    /\ UNCHANGED <<fetchVars, uiVars, workerVars, scenarioVars, mapVars, stop_requested, analysisVars, corrVars>>
    /\ UNCHANGED treeVars

\* lines 243-256: after the sort, the optional diagnosis and the result message
FullFinish ==
    /\ netPc = "sort"
    /\ sortPc = "done"
    /\ \E run_diagnosis \in BOOLEAN :
         load_order_problems' =
            IF run_diagnosis
            THEN AnalyzeCurrentLoadOrder(modList, folder_to_id, id_to_folders,
                     installed_ids, replacement_map, ignore_requirements_of_ids,
                     full_graph)
            ELSE <<>>
    /\ results' = results \o <<CompleteMessage(IF stop_requested THEN "void" ELSE "full")>>
    /\ netPc' = "done"
    /\ UNCHANGED <<UNINSTALLED_MOD_FETCH_DEPTH, known_ids, next_layer, depth,
                   reverse_graph, missing_report>>
    /\ UNCHANGED <<known_mod_data, full_graph>>
    /\ UNCHANGED <<fetchVars, uiVars, workerVars, scenarioVars, mapVars, stop_requested, sortVars, corrVars>>
    /\ UNCHANGED treeVars

(***************************************************************************)
(* The specification of a full analysis: profiles whose mods require mods  *)
(* that are not installed, under every depth setting from 0.               *)
(***************************************************************************)
\* Nexus ids with mods that are not installed: ids 3 and 4 have no folder
NetIdAssignments == {f \in IdAssignments : Cardinality(InstalledOf(f)) = 2}

\* requirement rows: a note is drawn for rows of installed mods that name a mod
\* that is not installed; the page of the last id has no rows
NetEntryUniverse(ids) ==
    {e \in EntryUniverse(Ids \ {Cardinality(Ids)}, {<<"mods", i>> : i \in Ids},
                         {NotePlain, NoteOptional}) :
        e.notes = NoteOptional
            => (e.from \in InstalledOf(ids) /\ e.url[2] \notin InstalledOf(ids))}

NetRules(ids) ==
    {[rmap |-> EmptyMap, ignReq |-> {}, ignored |-> {}],
     [rmap |-> EmptyMap, ignReq |-> {}, ignored |-> {Uninstalled(ids)}],
     [rmap |-> EmptyMap, ignReq |-> {1}, ignored |-> {}],
     [rmap |-> (Uninstalled(ids) :> 1), ignReq |-> {}, ignored |-> {}],
     [rmap |-> (Uninstalled(ids) :> Uninstalled(ids) + 1), ignReq |-> {}, ignored |-> {}]}

InitFull ==
    /\ modList = <<"A", "B", "C">>
    /\ nexusId \in NetIdAssignments
    /\ \E rules \in NetRules(nexusId) :
         /\ replacement_map = rules.rmap
         /\ ignore_requirements_of_ids = rules.ignReq
         /\ ignore_ids = rules.ignored
    /\ \E E \in {X \in SUBSET NetEntryUniverse(nexusId) : Cardinality(X) <= MaxNetEdges} :
         site = SiteOf(E, EmptyMap)
    /\ UNINSTALLED_MOD_FETCH_DEPTH \in 0..MaxFetchDepth
    /\ folder_to_id = <<>>
    /\ id_to_folders = [id \in Ids |-> <<>>]
    /\ installed_ids = {}
    /\ stop_requested = FALSE
    /\ known_mod_data = <<>>
    /\ full_graph = [id \in Ids |-> <<>>]
    /\ load_order_problems = <<>>
    /\ sortPc = "idle" /\ in_degree = EmptyMap /\ graph = EmptyMap
    /\ ready_queue = {} /\ sorted_order = <<>> /\ broken_cycle_nodes = <<>>
    /\ cancelled = FALSE /\ iterations = 0 /\ run = 0 /\ first_result = NoResult
    /\ CorrIdle
    /\ FetchIdle /\ UiIdle /\ WorkerIdle /\ TreeIdle
    /\ netPc = "start" /\ known_ids = {} /\ next_layer = {} /\ depth = 0
    /\ reverse_graph = [id \in Ids |-> <<>>]
    /\ missing_report = EmptyMap /\ results = <<>>

NextFull ==
    \/ FullStart \/ NetPhase1 \/ NetLayer \/ NetGraph \/ IdentifyMissing
    \/ SortBegin \/ SortCancel \/ SortPop \/ SortBreak \/ SortReturn
    \/ FullFinish \/ RequestStop

SpecFull == InitFull /\ [][NextFull]_vars

(***************************************************************************)
(* get_mod_data: the entry checks and the cache lookup, then one action    *)
(* per attempt of the retry loop.                                          *)
(***************************************************************************)
\* largest retry setting of the scenarios
MaxRetries == 2

\* _cache_mod_data: INSERT OR REPLACE of the row of the record's id
CacheModData(rows, data) == {r \in rows : r.id # data.id} \cup {data}

\* what one attempt can meet: the page, a notice page (one of them the adult
\* content notice), a Playwright timeout, any other exception
FetchOutcomes == {"page", "notice", "adult_content", "timeout", "failure"}

AdultContentMessage == [type |-> "adult_content_blocked", data |-> "none"]
CloudflareMessage == [type |-> "cloudflare_block_suspected", data |-> "none"]

\* lines 463-476: the stop flag, the connection, the cache row, the loop entry
GetModData(id) ==
    /\ fetchPc = "idle"
    /\ fetch_mod_id' = id
    /\ IF stop_requested \/ ~conn
       THEN /\ mod_data' = NoneData
            /\ fetchPc' = "returned"
            /\ UNCHANGED <<attempt, last_error>>
       ELSE IF \E row \in cache : row.id = id
       THEN /\ mod_data' = CHOOSE row \in cache : row.id = id
            /\ fetchPc' = "returned"
            /\ UNCHANGED <<attempt, last_error>>
       ELSE /\ fetchPc' = "attempt"
            /\ attempt' = 0
            /\ last_error' = "None"
            /\ UNCHANGED mod_data
    /\ UNCHANGED <<conn, MAX_RETRIES, cache>>
    /\ UNCHANGED <<uiVars, workerVars, scenarioVars, mapVars, netVars, stop_requested,
                   analysisVars, sortVars, corrVars>>
    /\ UNCHANGED treeVars

\* the record returned by the function, written to the cache first
FetchReturns(data) ==
    /\ mod_data' = data
    /\ cache' = CacheModData(cache, data)
    /\ fetchPc' = "returned"

\* lines 476-562: one iteration of the retry loop, or the code after the loop
FetchAttempt ==
    /\ fetchPc = "attempt"
    /\ IF attempt >= MAX_RETRIES
       THEN /\ FetchReturns(ModData(fetch_mod_id, last_error, <<>>))
            /\ UNCHANGED <<attempt, last_error, results>>
       ELSE IF stop_requested
       THEN /\ mod_data' = NoneData
            /\ fetchPc' = "returned"
            /\ UNCHANGED <<cache, attempt, last_error, results>>
       ELSE \E outcome \in FetchOutcomes :
              CASE outcome = "page" ->
                     /\ FetchReturns(ModData(fetch_mod_id, "", site[fetch_mod_id].requires))
                     /\ UNCHANGED <<attempt, last_error, results>>
                [] outcome = "notice" ->
                     /\ FetchReturns(ModData(fetch_mod_id, "unavailable", <<>>))
                     /\ UNCHANGED <<attempt, last_error, results>>
                [] outcome = "adult_content" ->
                     /\ FetchReturns(ModData(fetch_mod_id, "unavailable", <<>>))
                     /\ results' = Append(results, AdultContentMessage)
                     /\ UNCHANGED <<attempt, last_error>>
                [] outcome = "timeout" ->
                     /\ last_error' = "timeout"
                     /\ attempt' = attempt + 1
                     /\ results' = IF attempt = MAX_RETRIES - 1
                                   THEN Append(results, CloudflareMessage)
                                   ELSE results
                     /\ UNCHANGED <<cache, fetchPc, mod_data>>
                [] outcome = "failure" ->
                     /\ last_error' = "failure"
                     /\ attempt' = attempt + 1
                     /\ UNCHANGED <<cache, fetchPc, mod_data, results>>
    /\ UNCHANGED <<conn, MAX_RETRIES, fetch_mod_id>>
    /\ UNCHANGED <<UNINSTALLED_MOD_FETCH_DEPTH, netPc, known_ids, next_layer, depth,
                   reverse_graph, missing_report>>
    /\ UNCHANGED <<uiVars, workerVars, scenarioVars, mapVars, stop_requested,
                   analysisVars, sortVars, corrVars>>
    /\ UNCHANGED treeVars

\* the caller has the value; the next call can start
FetchReturn ==
    /\ fetchPc = "returned"
    /\ fetchPc' = "idle"
    /\ UNCHANGED <<conn, MAX_RETRIES, cache, fetch_mod_id, attempt, last_error, mod_data>>
    /\ UNCHANGED <<uiVars, workerVars, scenarioVars, mapVars, netVars, stop_requested,
                   analysisVars, sortVars, corrVars>>
    /\ UNCHANGED treeVars

\* rows the cache table can hold when the analyzer starts
StoredRows == {ModData(1, "", <<>>), ModData(2, "unavailable", <<>>)}

\* the connection is open, or None after a failed _init_db (line 103)
InitFetch ==
    /\ modList = <<"A", "B", "C">>
    /\ nexusId = [m \in Mods |-> NameRank(m)]
    /\ replacement_map = EmptyMap /\ ignore_requirements_of_ids = {} /\ ignore_ids = {}
    /\ \E E \in EntrySets({1}, {<<"mods", 2>>, <<"mods", 3>>}, {NotePlain}, 1) :
         site = SiteOf(E, EmptyMap)
    /\ folder_to_id = <<>>
    /\ id_to_folders = [id \in Ids |-> <<>>]
    /\ installed_ids = {}
    /\ stop_requested \in BOOLEAN
    /\ known_mod_data = <<>>
    /\ full_graph = [id \in Ids |-> <<>>]
    /\ load_order_problems = <<>>
    /\ SortIdle /\ CorrIdle /\ NetIdle /\ UiIdle /\ WorkerIdle /\ TreeIdle
    /\ conn \in BOOLEAN
    /\ MAX_RETRIES \in 0..MaxRetries
    /\ cache \in SUBSET StoredRows
    /\ fetchPc = "idle" /\ fetch_mod_id = 0 /\ attempt = 0 /\ last_error = "None"
    /\ mod_data = NoneData

NextFetch ==
    \/ \E id \in 1..3 : GetModData(id)
    \/ FetchAttempt \/ FetchReturn \/ RequestStop

SpecFetch == InitFetch /\ [][NextFetch]_vars

(***************************************************************************)
(* The dialog (UI thread) and the worker thread: the task queue, the       *)
(* result queue and the four analysis operations.  The analysis proper is  *)
(* the subject of the specifications above; here an operation is its       *)
(* browser check, its parse of the profile and the messages it puts.       *)
(***************************************************************************)
\* largest number of analysis tasks the dialog starts
MaxTasks == 2

AnalysisTasks == {"analyze_single", "generate_graph", "analyze_full", "find_translations"}

\* the two cache operations that trigger_delete_selected_cache and
\* trigger_clear_all_cache start through _start_task
CacheTasks == {"delete_cache", "clear_cache"}

\* the type an operation gives its analysis_complete messages
AnalysisTypeOf(t) ==
    CASE t = "analyze_single"    -> "single_mod"
      [] t = "generate_graph"    -> "graph"
      [] t = "analyze_full"      -> "full_analysis"
      [] t = "find_translations" -> "translations"
      [] t = "delete_cache"      -> "cache_deleted"
      [] t = "clear_cache"       -> "cache_cleared"

\* the tab that holds the button of a task
TabOf(t) ==
    CASE t \in {"analyze_single", "generate_graph"} -> "single"
      [] t = "analyze_full"                         -> "full"
      [] t = "find_translations"                    -> "translations"
      [] t \in CacheTasks                            -> "cache"

AnalysisComplete(type, data) ==
    [type |-> "analysis_complete", data |-> [type |-> type, data |-> data]]

\* bool(data) of the data of a full analysis: None and {} are false
Truthy(data) == data \in {"no_mods", "full", "full_with_problems"}

\* clear_active_tree: the report tree loses its items when its tab is current
ClearActiveTree == IF tabs_current = "full" THEN FALSE ELSE tree_problems

\* _start_task, after its two early returns
StartTaskEffects(t) ==
    /\ tree_problems' = ClearActiveTree
    /\ is_running_analysis' = TRUE
    /\ task_queue' = Append(task_queue, t)
    /\ stop_called' = FALSE

\* the trigger_* handlers of the buttons
StartTask(t) ==
    /\ uiPc = "idle" /\ tabs_current = TabOf(t)
    /\ browser_ready /\ ~is_running_analysis
    /\ handled + Len(task_queue) < MaxTasks
    /\ StartTaskEffects(t)
    /\ UNCHANGED <<browser_ready, tabs_current, last_full_analysis_data, processed, uiPc>>
    /\ UNCHANGED <<fetchVars, workerVars, scenarioVars, mapVars, netVars, stop_requested,
                   analysisVars, sortVars, corrVars>>
    /\ UNCHANGED treeVars

\* the user selects another tab
SwitchTab(t) ==
    /\ uiPc = "idle" /\ t # tabs_current
    /\ tabs_current' = t
    /\ UNCHANGED <<task_queue, is_running_analysis, browser_ready, tree_problems,
                   last_full_analysis_data, processed, uiPc, stop_called>>
    /\ UNCHANGED <<fetchVars, workerVars, scenarioVars, mapVars, netVars, stop_requested,
                   analysisVars, sortVars, corrVars>>
    /\ UNCHANGED treeVars

\* trigger_stop -> WorkerThread.request_stop
TriggerStop ==
    /\ uiPc = "idle" /\ is_running_analysis /\ ~(stop_requested /\ stop_called)
    /\ stop_requested' = TRUE
    /\ stop_called' = TRUE
    /\ UNCHANGED <<task_queue, is_running_analysis, browser_ready, tabs_current,
                   tree_problems, last_full_analysis_data, processed, uiPc>>
    /\ UNCHANGED <<fetchVars, workerVars, scenarioVars, mapVars, netVars,
                   analysisVars, sortVars, corrVars>>
    /\ UNCHANGED treeVars

\* process_results, one message: on_error or on_analysis_complete
ProcessResult ==
    /\ uiPc = "idle" /\ processed < Len(results)
    /\ processed' = processed + 1
    /\ is_running_analysis' = FALSE
    /\ LET msg == results[processed + 1]
       IN  IF msg.type = "analysis_complete" /\ msg.data.type = "full_analysis"
           THEN /\ last_full_analysis_data' = msg.data.data
                /\ tree_problems' =
                     IF msg.data.data \in {"full", "full_with_problems"}
                     THEN ClearActiveTree \/ msg.data.data = "full_with_problems"
                     ELSE tree_problems
           ELSE UNCHANGED <<last_full_analysis_data, tree_problems>>
    /\ UNCHANGED <<task_queue, browser_ready, tabs_current, uiPc, stop_called>>
    /\ UNCHANGED <<fetchVars, workerVars, scenarioVars, mapVars, netVars, stop_requested,
                   analysisVars, sortVars, corrVars>>
    /\ UNCHANGED treeVars

\* correct_load_order from the context menu of a diagnosis item, up to the
\* scoring loop; is_running_analysis is not read
CorrectBegin ==
    /\ uiPc = "idle" /\ tabs_current = "full" /\ tree_problems
    /\ Truthy(last_full_analysis_data)
    /\ uiPc' = "scoring"
    /\ UNCHANGED <<task_queue, is_running_analysis, browser_ready, tabs_current,
                   tree_problems, last_full_analysis_data, processed, stop_called>>
    /\ UNCHANGED <<fetchVars, workerVars, scenarioVars, mapVars, netVars, stop_requested,
                   analysisVars, sortVars, corrVars>>
    /\ UNCHANGED treeVars

\* correct_load_order after the scoring loop: nothing to move or a rejected
\* dialog, or setPriorities and trigger_full_profile_analysis
CorrectEnd ==
    /\ uiPc = "scoring"
    /\ uiPc' = "idle"
    /\ \/ UNCHANGED <<modList, task_queue, is_running_analysis, tree_problems,
                      stop_called>>
       \/ /\ \E order \in Perms(Mods) : modList' = order
          /\ IF browser_ready /\ ~is_running_analysis
             THEN /\ handled + Len(task_queue) < MaxTasks
                  /\ StartTaskEffects("analyze_full")
             ELSE UNCHANGED <<task_queue, is_running_analysis, tree_problems,
                              stop_called>>
    /\ UNCHANGED <<browser_ready, tabs_current, last_full_analysis_data, processed>>
    /\ UNCHANGED <<nexusId, site, ignore_ids, replacement_map, ignore_requirements_of_ids>>
    /\ UNCHANGED <<fetchVars, workerVars, mapVars, netVars, stop_requested,
                   analysisVars, sortVars, corrVars>>
    /\ UNCHANGED treeVars

\* WorkerThread.run: the next task, with the stop flag cleared
WorkerGet ==
    /\ workerPc = "idle" /\ task_queue # <<>>
    /\ task' = Head(task_queue)
    /\ task_queue' = Tail(task_queue)
    /\ stop_requested' = FALSE
    /\ workerPc' = IF Head(task_queue) \in AnalysisTasks THEN "check" ELSE "cache"
    /\ handled' = handled + 1
    /\ UNCHANGED <<is_running_analysis, browser_ready, tabs_current, tree_problems,
                   last_full_analysis_data, processed, uiPc, stop_called>>
    /\ UNCHANGED <<fetchVars, scenarioVars, mapVars, netVars, analysisVars, sortVars,
                   corrVars>>
    /\ UNCHANGED treeVars

\* _check_before_analysis
WorkerCheck ==
    /\ workerPc = "check"
    /\ \E ready \in BOOLEAN :
         IF ~ready
         THEN /\ results' = results \o <<ErrorMessage,
                                         AnalysisComplete(AnalysisTypeOf(task), "None")>>
              /\ workerPc' = "idle"
              /\ task' = "none"
         ELSE /\ workerPc' = "parse"
              /\ UNCHANGED <<results, task>>
    /\ UNCHANGED handled
    /\ UNCHANGED <<UNINSTALLED_MOD_FETCH_DEPTH, netPc, known_ids, next_layer, depth,
                   reverse_graph, missing_report>>
    /\ UNCHANGED <<fetchVars, uiVars, scenarioVars, mapVars, stop_requested,
                   analysisVars, sortVars, corrVars>>
    /\ UNCHANGED treeVars

\* _parse_installed_mods, line 446: the two dicts are cleared
ParseClear ==
    /\ workerPc = "parse"
    /\ folder_to_id' = <<>>
    /\ id_to_folders' = [id \in Ids |-> <<>>]
    /\ workerPc' = "fill"
    /\ UNCHANGED <<installed_ids, task, handled>>
    /\ UNCHANGED <<fetchVars, uiVars, scenarioVars, netVars, stop_requested,
                   analysisVars, sortVars, corrVars>>
    /\ UNCHANGED treeVars

\* _parse_installed_mods, lines 447-453: the maps are filled from the profile
ParseFill ==
    /\ workerPc = "fill"
    /\ folder_to_id' = ParseFolderToId(modList, nexusId)
    /\ id_to_folders' = ParseIdToFolders(ParseFolderToId(modList, nexusId))
    /\ installed_ids' = ParseInstalledIds(ParseFolderToId(modList, nexusId))
    /\ workerPc' = "body"
    /\ UNCHANGED <<task, handled>>
    /\ UNCHANGED <<fetchVars, uiVars, scenarioVars, netVars, stop_requested,
                   analysisVars, sortVars, corrVars>>
    /\ UNCHANGED treeVars

\* the data of the analysis_complete message of an operation that returns
CompletedData(t, problems) ==
    CASE t = "analyze_single" ->
            IF stop_requested THEN "None" ELSE "tree"
      [] t = "generate_graph" ->
            IF stop_requested THEN "None" ELSE "svg"
      [] t = "analyze_full" ->
            IF folder_to_id = <<>> THEN "no_mods"
            ELSE IF stop_requested THEN "void"
            ELSE IF problems THEN "full_with_problems" ELSE "full"
      [] t = "find_translations" ->
            IF stop_requested THEN "void" ELSE "translations"

\* the rest of the operation: its analysis_complete message, or the error
\* message of its except clause
WorkerBody ==
    /\ workerPc = "body"
    /\ \E raises, problems \in BOOLEAN :
         results' = Append(results,
                           IF raises THEN ErrorMessage
                           ELSE AnalysisComplete(AnalysisTypeOf(task),
                                                 CompletedData(task, problems)))
    /\ workerPc' = "idle"
    /\ task' = "none"
    /\ UNCHANGED handled
    /\ UNCHANGED <<UNINSTALLED_MOD_FETCH_DEPTH, netPc, known_ids, next_layer, depth,
                   reverse_graph, missing_report>>
    /\ UNCHANGED <<fetchVars, uiVars, scenarioVars, mapVars, stop_requested,
                   analysisVars, sortVars, corrVars>>
    /\ UNCHANGED treeVars

\* delete_cache_entries and clear_cache: nothing is put without a cache
\* connection, else the analysis_complete message of the operation
WorkerCache ==
    /\ workerPc = "cache"
    /\ results' = IF ~conn THEN results
                  ELSE Append(results,
                              AnalysisComplete(AnalysisTypeOf(task),
                                               IF task = "delete_cache" THEN "cache_data"
                                               ELSE "None"))
    /\ workerPc' = "idle"
    /\ task' = "none"
    /\ UNCHANGED handled
    /\ UNCHANGED <<UNINSTALLED_MOD_FETCH_DEPTH, netPc, known_ids, next_layer, depth,
                   reverse_graph, missing_report>>
    /\ UNCHANGED <<fetchVars, uiVars, scenarioVars, mapVars, stop_requested,
                   analysisVars, sortVars, corrVars>>
    /\ UNCHANGED treeVars

\* ModAnalyzer.initialize has parsed the profile once; _init_db has opened the
\* cache or left conn None
InitWorker ==
    /\ modList = <<"A", "B", "C">>
    /\ nexusId \in {[m \in Mods |-> 0], [m \in Mods |-> NameRank(m)]}
    /\ replacement_map = EmptyMap /\ ignore_requirements_of_ids = {} /\ ignore_ids = {}
    /\ site = SiteOf({}, EmptyMap)
    /\ folder_to_id = ParseFolderToId(modList, nexusId)
    /\ id_to_folders = ParseIdToFolders(ParseFolderToId(modList, nexusId))
    /\ installed_ids = ParseInstalledIds(ParseFolderToId(modList, nexusId))
    /\ stop_requested = FALSE
    /\ known_mod_data = <<>>
    /\ full_graph = [id \in Ids |-> <<>>]
    /\ load_order_problems = <<>>
    /\ SortIdle /\ CorrIdle /\ NetIdle /\ UiIdle /\ WorkerIdle /\ TreeIdle
    /\ conn \in BOOLEAN /\ MAX_RETRIES = 3 /\ cache = {} /\ fetchPc = "idle"
    /\ fetch_mod_id = 0 /\ attempt = 0 /\ last_error = "None" /\ mod_data = NoneData

NextWorker ==
    \/ \E t \in AnalysisTasks \cup CacheTasks : StartTask(t)
    \/ \E t \in {"single", "full", "translations", "cache"} : SwitchTab(t)
    \/ TriggerStop \/ ProcessResult \/ CorrectBegin \/ CorrectEnd
    \/ WorkerGet \/ WorkerCheck \/ ParseClear \/ ParseFill \/ WorkerBody
    \/ WorkerCache

SpecWorker == InitWorker /\ [][NextWorker]_vars

(***************************************************************************)
(* _build_dependency_tree: one action per call from a caller, per          *)
(* iteration of the loop over the requirements and per return of a call    *)
(* that entered the loop.  Calls that return before the loop are part of   *)
(* the action of their caller.                                             *)
(***************************************************************************)
\* largest depth setting and largest number of requirement rows of the scenarios
MaxRecursionDepth == 3
MaxTreeEdges == 4

\* a node_data dict; has_key tells whether the key 'is_fully_satisfied' is set
NodeData(id, is_installed, status, has_key, is_fully_satisfied) ==
    [absent |-> FALSE, id |-> id, is_installed |-> is_installed, status |-> status,
     children |-> <<>>, notes |-> NotePlain, has_key |-> has_key,
     is_fully_satisfied |-> is_fully_satisfied]

\* what a call of get_mod_data may return: None when the stop flag is set or
\* the cache has no connection, else the scraped page or a record of a failure
ModDataResults(id) ==
    IF stop_requested \/ ~conn THEN {NoneData}
    ELSE {ModData(id, "", site[id].requires), ModData(id, "unavailable", <<>>)}

\* IsCycle with the test of line 598 left out
IsNeverCycle(id, visited_ids) == FALSE

\* line 598: mod_id in visited_ids
IsCycle(id, visited_ids) == id \in visited_ids

\* IsTruncated with the test of line 621 left out
IsNeverTruncated(d) == FALSE

\* line 621: depth >= MAX_RECURSION_DEPTH
IsTruncated(d) == d >= MAX_RECURSION_DEPTH

\* lines 592-626 of a call with the given result of get_mod_data: no node, a
\* node returned before the loop, or the frame of a call that enters the loop
EnterNode(id, visited_ids, d, data) ==
    LET is_installed == GetEffectiveId(replacement_map, id) \in installed_ids
    IN  IF stop_requested \/ id \in ignore_ids THEN [kind |-> "none"]
        ELSE IF IsCycle(id, visited_ids)
        THEN [kind |-> "leaf",
              node |-> NodeData(id, is_installed, "cycle", FALSE, FALSE)]
        ELSE IF data.absent THEN [kind |-> "none"]
        ELSE IF IsTruncated(d)
        THEN [kind |-> "leaf",
              node |-> NodeData(id, is_installed, "truncated", TRUE, FALSE)]
        ELSE IF data.error # ""
        THEN [kind |-> "leaf",
              node |-> NodeData(id, is_installed, "missing", TRUE, FALSE)]
        ELSE [kind |-> "frame",
              frame |-> [node |-> NodeData(id, is_installed,
                                           IF is_installed THEN "satisfied" ELSE "missing",
                                           FALSE, is_installed),
                         visited_ids |-> visited_ids \cup {id},
                         d |-> d, reqs |-> data.requires, i |-> 0]]

\* line 637: the filters of the request
Hidden(notes) ==
    \/ hide_vr /\ "vr" \in TagsOfNotes(notes)
    \/ hide_optional /\ "optional" \in TagsOfNotes(notes)
    \/ hide_recommended /\ "recommended" \in TagsOfNotes(notes)

\* lines 642-647: the child of the current requirement is appended
AddChild(frame, child_data) ==
    [frame EXCEPT
        !.node.children = Append(@, [child_data EXCEPT !.notes = frame.reqs[frame.i + 1].notes]),
        !.node.is_fully_satisfied = @ /\ child_data.has_key /\ child_data.is_fully_satisfied,
        !.i = @ + 1]

\* lines 152, 168: the call of the caller, with an empty visited set at depth 0
BuildTreeCall(initial_mod_id) ==
    /\ treePc = "idle"
    /\ \E data \in ModDataResults(initial_mod_id) :
         LET r == EnterNode(initial_mod_id, {}, 0, data)
         IN  IF r.kind = "frame"
             THEN /\ call_stack' = <<r.frame>>
                  /\ treePc' = "running"
                  /\ UNCHANGED root_data
             ELSE /\ root_data' = IF r.kind = "leaf" THEN r.node ELSE NoneNode
                  /\ treePc' = "done"
                  /\ UNCHANGED call_stack
    /\ UNCHANGED <<MAX_RECURSION_DEPTH, hide_vr, hide_optional, hide_recommended>>
    /\ UNCHANGED <<scenarioVars, mapVars, netVars, stop_requested, analysisVars, sortVars,
                   corrVars, fetchVars, uiVars, workerVars>>

\* lines 629-647: one iteration of the loop of the innermost call
BuildTreeRequirement ==
    /\ treePc = "running"
    /\ LET top == Len(call_stack)
           f == call_stack[top]
       IN  /\ f.i < Len(f.reqs)
           /\ ~stop_requested
           /\ LET req == f.reqs[f.i + 1]
              IN  IF Hidden(req.notes) \/ ~UrlHasModId(req.url)
                  THEN call_stack' = [call_stack EXCEPT ![top].i = @ + 1]
                  ELSE \E data \in ModDataResults(ExtractModIdFromUrl(req.url)) :
                         LET r == EnterNode(ExtractModIdFromUrl(req.url),
                                            f.visited_ids, f.d + 1, data)
                         IN  CASE r.kind = "none" ->
                                    call_stack' = [call_stack EXCEPT ![top].i = @ + 1]
                               [] r.kind = "leaf" ->
                                    call_stack' = [call_stack EXCEPT ![top] = AddChild(f, r.node)]
                               [] r.kind = "frame" ->
                                    call_stack' = Append(call_stack, r.frame)
    /\ UNCHANGED <<MAX_RECURSION_DEPTH, hide_vr, hide_optional, hide_recommended, treePc,
                   root_data>>
    /\ UNCHANGED <<scenarioVars, mapVars, netVars, stop_requested, analysisVars, sortVars,
                   corrVars, fetchVars, uiVars, workerVars>>

\* lines 630, 649-650: the loop of the innermost call is over or left at the
\* stop flag; its node goes to its caller
BuildTreeReturn ==
    /\ treePc = "running"
    /\ LET top == Len(call_stack)
           f == call_stack[top]
           node_data == [f.node EXCEPT !.has_key = TRUE]
       IN  /\ f.i >= Len(f.reqs) \/ stop_requested
           /\ IF top = 1
              THEN /\ root_data' = node_data
                   /\ call_stack' = <<>>
                   /\ treePc' = "done"
              ELSE /\ call_stack' = [SubSeq(call_stack, 1, top - 1) EXCEPT
                                        ![top - 1] = AddChild(@, node_data)]
                   /\ UNCHANGED <<root_data, treePc>>
    /\ UNCHANGED <<MAX_RECURSION_DEPTH, hide_vr, hide_optional, hide_recommended>>
    /\ UNCHANGED <<scenarioVars, mapVars, netVars, stop_requested, analysisVars, sortVars,
                   corrVars, fetchVars, uiVars, workerVars>>

(***************************************************************************)
(* The specification of the dependency tree: pages of three ids that may   *)
(* require each other in any way, two or three of them installed.          *)
(***************************************************************************)
TreeIds == 1..3

\* rows without notes between the three pages, with no filter set; or up to
\* two rows of which some carry a note or name no mod, with or without the
\* filter of optional requirements
TreeRequests ==
    [rows : EntrySets(TreeIds, {<<"mods", i>> : i \in TreeIds}, {NotePlain}, MaxTreeEdges),
     hide_optional : {FALSE}]
    \cup [rows : EntrySets({1}, {<<"mods", 2>>, <<"users", 3>>},
                           {NotePlain, NoteOptional}, 2),
          hide_optional : BOOLEAN]

\* rule tables: none, the id 3 replaced by the id 1, the id 3 ignored
TreeRules ==
    {[rmap |-> EmptyMap, ignored |-> {}],
     [rmap |-> (3 :> 1), ignored |-> {}],
     [rmap |-> EmptyMap, ignored |-> {3}]}

InitTree ==
    /\ modList = <<"A", "B", "C">>
    /\ nexusId \in {f \in IdAssignments : f["A"] = 1}
    /\ \E rules \in TreeRules :
         /\ replacement_map = rules.rmap
         /\ ignore_ids = rules.ignored
    /\ ignore_requirements_of_ids = {}
    /\ \E request \in TreeRequests :
         /\ site = SiteOf(request.rows, EmptyMap)
         /\ hide_optional = request.hide_optional
    /\ folder_to_id = ParseFolderToId(modList, nexusId)
    /\ id_to_folders = ParseIdToFolders(folder_to_id)
    /\ installed_ids = ParseInstalledIds(folder_to_id)
    /\ stop_requested = FALSE
    /\ known_mod_data = <<>>
    /\ full_graph = [id \in Ids |-> <<>>]
    /\ load_order_problems = <<>>
    /\ SortIdle /\ CorrIdle /\ NetIdle /\ UiIdle /\ WorkerIdle
    /\ conn \in BOOLEAN /\ MAX_RETRIES = 3 /\ cache = {} /\ fetchPc = "idle"
    /\ fetch_mod_id = 0 /\ attempt = 0 /\ last_error = "None" /\ mod_data = NoneData
    /\ MAX_RECURSION_DEPTH \in 1..MaxRecursionDepth
    /\ hide_vr = FALSE /\ hide_recommended = FALSE
    /\ treePc = "idle" /\ call_stack = <<>> /\ root_data = NoneNode

NextTree ==
    \/ \E id \in TreeIds : BuildTreeCall(id)
    \/ BuildTreeRequirement \/ BuildTreeReturn \/ RequestStop

SpecTree == InitTree /\ [][NextTree]_vars

(***************************************************************************)
(* Properties of the topological sort.                                     *)
(***************************************************************************)
\* the folder d has a requirement entry whose effective id is installed and
\* has the folder p among its folders
Requires(d, p) ==
    /\ d \in Folders(folder_to_id) /\ p \in Folders(folder_to_id)
    /\ \E k \in DOMAIN full_graph[IdOfFolder(folder_to_id, d)] :
         GetEffectiveId(replacement_map, full_graph[IdOfFolder(folder_to_id, d)][k].id)
            = IdOfFolder(folder_to_id, p)

RECURSIVE ReachableIn(_, _)
\* the folders reached from the set S along Requires in at most n more steps
ReachableIn(S, n) ==
    IF n = 0 THEN S
    ELSE ReachableIn(S \cup {p \in Folders(folder_to_id) : \E d \in S : Requires(d, p)}, n - 1)

\* f lies on a directed cycle of the satisfied-requirement graph
OnCycle(f) ==
    f \in ReachableIn({p \in Folders(folder_to_id) : Requires(f, p)},
                      Cardinality(Folders(folder_to_id)))

HasCycle == \E f \in Folders(folder_to_id) : OnCycle(f)

\* a sequence that holds every installed folder exactly once and nothing else
IsPermutationOfInstalled(order) ==
    /\ Len(order) = Len(folder_to_id)
    /\ Range(order) = Folders(folder_to_id)
    /\ \A i, j \in DOMAIN order : i # j => order[i] # order[j]

SortCompleted == sortPc = "done" /\ ~cancelled

\* C3 (totality): an uncancelled sort returns a permutation of exactly the
\* installed folder set, every installed folder once and nothing else, whatever
\* the requirement graph, cycles included.
C3_Totality == SortCompleted => IsPermutationOfInstalled(sorted_order)

\* a completed sort of a cyclic graph over three installed folders
C3_Witness ==
    /\ SortCompleted /\ HasCycle
    /\ Len(folder_to_id) = Cardinality(Mods)
    /\ Len(sorted_order) = Cardinality(Mods)

\* C8 (cycle termination): when the satisfied-requirement edges among installed
\* folders contain a cycle, the loop always has a next iteration to take until
\* it returns, it takes at most two iterations per folder, and an uncancelled
\* run returns a complete order with at least one cycle-break folder.
C8_CycleTermination ==
    HasCycle =>
        /\ iterations <= 2 * Len(folder_to_id)
        /\ sortPc = "loop" => ENABLED (SortCancel \/ SortPop \/ SortBreak \/ SortReturn)
        /\ SortCompleted =>
              /\ IsPermutationOfInstalled(sorted_order)
              /\ broken_cycle_nodes # <<>>

\* a completed sort of a graph with a cycle of length 1 and one of length 2
C8_Witness ==
    /\ SortCompleted
    /\ \E f \in Folders(folder_to_id) : Requires(f, f)
    /\ \E f, g \in Folders(folder_to_id) : f # g /\ Requires(f, g) /\ Requires(g, f)
    /\ Len(broken_cycle_nodes) >= 1

\* C9 (determinism): a second completed sort of the same graph, metadata, rule
\* tables, installed maps and current order returns the same order and the
\* same cycle-break folders as the first.
C9_Deterministic ==
    (run = 2 /\ SortCompleted) =>
        /\ sorted_order = first_result.order
        /\ broken_cycle_nodes = first_result.broken

\* two completed sorts in which ties of the category priority had to be broken
\* and a cycle had to be broken
C9_Witness ==
    /\ run = 2 /\ SortCompleted
    /\ first_result.order # <<>>
    /\ first_result.broken # <<>>
    /\ \A f, g \in Folders(folder_to_id) :
         CategoryOf(known_mod_data, IdOfFolder(folder_to_id, f))
            = CategoryOf(known_mod_data, IdOfFolder(folder_to_id, g))


\* the position of a folder in the returned order
PlaceOf(f) == IndexOf(sorted_order, f)

\* some requirement entry of an installed folder has an effective id that is
\* not installed
HasUnsatisfiedRequirement ==
    \E d \in Folders(folder_to_id) :
        \E k \in DOMAIN full_graph[IdOfFolder(folder_to_id, d)] :
            GetEffectiveId(replacement_map, full_graph[IdOfFolder(folder_to_id, d)][k].id)
                \notin installed_ids

\* C15 (providers first): in the order of an uncancelled sort every folder of
\* an installed effective provider of a dependent that is no cycle-break point
\* precedes the dependent; the edges the sort works with all come from
\* requirements whose effective id is installed, so the others constrain
\* nothing.
C15_ProvidersPrecede ==
    /\ SortCompleted =>
         \A d, p \in Folders(folder_to_id) :
            (Requires(d, p) /\ ~Has(broken_cycle_nodes, d)) =>
                /\ Has(sorted_order, d) /\ Has(sorted_order, p)
                /\ PlaceOf(p) < PlaceOf(d)
    /\ sortPc = "loop" =>
         \A p \in DOMAIN graph : \A i \in DOMAIN graph[p] : Requires(graph[p][i], p)

\* a completed sort that moved a provider in front of its dependent, with a
\* requirement of an id that is not installed in the graph
C15_Witness ==
    /\ SortCompleted
    /\ HasUnsatisfiedRequirement
    /\ \E d, p \in Folders(folder_to_id) :
         /\ d # p /\ Requires(d, p) /\ ~Has(broken_cycle_nodes, d)
         /\ CurrentPos(modList, p) > CurrentPos(modList, d)
         /\ PlaceOf(p) < PlaceOf(d)

\* the key (categoryPriority, position in the current order, folder name)
KeyOf(f) ==
    <<CATEGORY_PRIORITIES(CategoryOf(known_mod_data, IdOfFolder(folder_to_id, f))),
      CurrentPos(modList, f), NameRank(f)>>

KeyBefore(f, g) ==
    \/ KeyOf(f)[1] < KeyOf(g)[1]
    \/ KeyOf(f)[1] = KeyOf(g)[1] /\ KeyOf(f)[2] < KeyOf(g)[2]
    \/ KeyOf(f)[1] = KeyOf(g)[1] /\ KeyOf(f)[2] = KeyOf(g)[2] /\ KeyOf(f)[3] < KeyOf(g)[3]

\* the unplaced folders whose remaining in-degree is zero, and those whose
\* remaining in-degree is positive
ReadyFolders == {f \in DOMAIN in_degree : ~Has(sorted_order, f) /\ in_degree[f] = 0}
StuckFolders == {f \in DOMAIN in_degree : ~Has(sorted_order, f) /\ in_degree[f] > 0}

\* C16 (smallest key first): a step that appends a folder appends the
\* smallest-key folder among the unplaced folders of in-degree zero; a step
\* that records a cycle-break point is taken when no folder is ready and
\* forces the smallest-key folder among the unplaced folders of positive
\* in-degree to in-degree zero.
C16_SmallestKeyFirst ==
    [][/\ (sortPc = "loop" /\ Len(sorted_order') = Len(sorted_order) + 1) =>
            LET u == sorted_order'[Len(sorted_order')]
            IN  /\ u \in ReadyFolders
                /\ \A f \in ReadyFolders \ {u} : KeyBefore(u, f)
       /\ (sortPc = "loop" /\ Len(broken_cycle_nodes') = Len(broken_cycle_nodes) + 1) =>
            LET b == broken_cycle_nodes'[Len(broken_cycle_nodes')]
            IN  /\ ReadyFolders = {}
                /\ b \in StuckFolders
                /\ \A f \in StuckFolders \ {b} : KeyBefore(b, f)
                /\ in_degree'[b] = 0]_vars

\* a completed sort in which the category priority put a later folder of the
\* current order in front of an earlier one, both ready from the start, and in
\* which a cycle was broken
C16_Witness ==
    /\ SortCompleted
    /\ broken_cycle_nodes # <<>>
    /\ \E f, g \in Folders(folder_to_id) :
         /\ f # g
         /\ \A p \in Folders(folder_to_id) : ~Requires(f, p) /\ ~Requires(g, p)
         /\ CurrentPos(modList, f) > CurrentPos(modList, g)
         /\ PlaceOf(f) < PlaceOf(g)


(***************************************************************************)
(* Properties of the corrector.                                            *)
(***************************************************************************)
\* the disruption score of an order under the maps and graph of the analysis
Score(order) ==
    CalculateDisruptionScore(order, folder_to_id, id_to_folders, installed_ids,
                             replacement_map, ignore_requirements_of_ids, full_graph)

\* the corrector has produced its result and modList still is the original order
CorrectorRan == uiOutcome \in {"proposal", "no_change"}

Compose(R, S) == {<<z[1][1], z[2][2]>> : z \in {w \in R \X S : w[1][2] = w[2][1]}}

RECURSIVE Closure(_, _)
Closure(R, n) == IF n = 0 THEN R ELSE Closure(R \cup Compose(R, R), n - 1)

\* the selected "must come after" constraints contain a cycle
Contradictory(fix) == \E q \in Closure(fix, Cardinality(Mods)) : q[1] = q[2]

\* C1 (as stated): after a correction of a non-empty, non-contradictory
\* selection every selected pair (d, p) has p before d in the proposed order, and
\* the diagnostics of the proposed order report none of the selected pairs.
C1_SelectedFixed ==
    (CorrectorRan /\ problems_to_fix # {} /\ ~Contradictory(problems_to_fix))
    => /\ \A q \in problems_to_fix :
            IndexOf(proposed_order, q[2]) < IndexOf(proposed_order, q[1])
       /\ ReportedPairs(AnalyzeCurrentLoadOrder(proposed_order, folder_to_id,
              id_to_folders, installed_ids, replacement_map,
              ignore_requirements_of_ids, full_graph)) \cap problems_to_fix = {}

\* C2 (as stated): the disruption score of the proposed order is at most the
\* score of the original order.
C2_Monotone == CorrectorRan => Score(proposed_order) <= Score(modList)

\* the candidate positions of the dependent d in the working order
Window(original, order, fix, d) ==
    SearchStart(SeparatorBoundaries(original)[SeparatorMapGet(original, d)].start,
                LastProviderPos(order, fix, d))
    .. SeparatorBoundaries(original)[SeparatorMapGet(original, d)].end

\* C2 (amended): every order the corrector adopts for a dependent has the least
\* disruption score among the insertions of that dependent at the positions of
\* its search window; the score of the order it replaces is not compared.
C2_AdoptedIsWindowMinimum ==
    [][(corrPc = "pass" /\ visitIdx' = visitIdx + 1 /\ proposed_order' # proposed_order)
       => \A i \in Window(modList, proposed_order, problems_to_fix, visit[visitIdx]) :
            Score(proposed_order')
              <= Score(InsertAt(PopAt(proposed_order,
                                      IndexOf(proposed_order, visit[visitIdx])),
                                i, visit[visitIdx]))]_vars

\* a proposal whose score exceeds the score of the original order
C2_Witness ==
    /\ uiOutcome = "proposal"
    /\ proposed_order # modList
    /\ Score(proposed_order) > Score(modList)

\* the scenario of the example: B requires A is the only edge, no separators
ExampleScenario ==
    /\ nexusId = [m \in Mods |-> NameRank(m)]
    /\ \A i \in Ids : Len(full_graph[i]) = IF i = NameRank("B") THEN 1 ELSE 0
    /\ full_graph[NameRank("B")][1].id = NameRank("A")
    /\ problems_to_fix = {<<"B", "A">>}
    /\ CorrectorRan

\* C5 (as stated): from the order [B, A, C] with the violation (B, A) selected the
\* proposed order has A before B and movedMods is exactly {A, B}.
C5_Example ==
    (ExampleScenario /\ modList = <<"B", "A", "C">>)
    => /\ IndexOf(proposed_order, "A") < IndexOf(proposed_order, "B")
       /\ moved_mods = {"A", "B"}

\* f was selected to follow a provider of another separator group
HasCrossGroupProvider(f) ==
    \E q \in problems_to_fix :
        q[1] = f /\ SeparatorMapGet(modList, q[2]) # SeparatorMapGet(modList, f)

\* C6 (separator containment): a moved folder without a selected provider outside
\* its separator group has its proposed index within the [start, end] computed
\* for its original group.
C6_Containment ==
    CorrectorRan =>
        \A f \in moved_mods :
            (~isSeparator(f) /\ ~HasCrossGroupProvider(f))
            => /\ SeparatorBoundaries(modList)[SeparatorMapGet(modList, f)].start
                    <= IndexOf(proposed_order, f)
               /\ IndexOf(proposed_order, f)
                    <= SeparatorBoundaries(modList)[SeparatorMapGet(modList, f)].end

\* a selected dependent of a group that another separator follows was moved to
\* the end index of its group
C6_Witness ==
    /\ CorrectorRan
    /\ \E f \in moved_mods :
         /\ f \in {q[1] : q \in problems_to_fix}
         /\ ~HasCrossGroupProvider(f)
         /\ SeparatorBoundaries(modList)[SeparatorMapGet(modList, f)].end < Len(modList)
         /\ IndexOf(proposed_order, f)
              = SeparatorBoundaries(modList)[SeparatorMapGet(modList, f)].end

\* C7 (no-op detection): movedMods is the set of folders whose index differs
\* between the original and the proposed order; with it empty the outcome is
\* "no change", no proposal is open and setPriorities has not been called; a
\* proposal and a call of setPriorities only come with a non-empty movedMods.
C7_NoOp ==
    /\ CorrectorRan =>
         /\ moved_mods = {f \in Range(modList) :
                            IndexOf(modList, f) # IndexOf(proposed_order, f)}
         /\ (moved_mods = {}) = (proposed_order = modList)
         /\ (moved_mods = {}) = (uiOutcome = "no_change")
    /\ uiOutcome = "no_change" =>
         /\ corrPc = "done"
         /\ setPrioritiesCalls = 0
         /\ ~ENABLED (DialogAccept \/ DialogReject)
    /\ (corrPc = "dialog" \/ setPrioritiesCalls > 0) => moved_mods # {}
    /\ setPrioritiesCalls > 0 => uiOutcome = "applied"

\* a correction of a real selection that ends without any change
C7_Witness ==
    /\ uiOutcome = "no_change"
    /\ problems_to_fix # {}
    /\ passNo = 1
    /\ moved_mods = {}

\* C17 (as stated): when the corrector has visited a dependent with a
\* non-empty search window, no candidate index of the window with the same
\* score as the adopted order is closer to the dependent's index in the
\* original order than the index the dependent now has.
C17_TieBreakByOriginalIndex ==
    [][(corrPc = "pass" /\ visitIdx' = visitIdx + 1
        /\ Window(modList, proposed_order, problems_to_fix, visit[visitIdx]) # {})
       => \A i \in Window(modList, proposed_order, problems_to_fix, visit[visitIdx]) :
            Score(InsertAt(PopAt(proposed_order, IndexOf(proposed_order, visit[visitIdx])),
                           i, visit[visitIdx])) = Score(proposed_order')
            => Abs(IndexOf(proposed_order', visit[visitIdx])
                     - IndexOf(modList, visit[visitIdx]))
                 <= Abs(i - IndexOf(modList, visit[visitIdx]))]_vars


\* the indices of the range [start, end] of a group
GroupRange(list, sep) ==
    SeparatorBoundaries(list)[sep].start .. SeparatorBoundaries(list)[sep].end

\* C18 (as stated): with the ranges computed at the start of a correction,
\* the index of every non-separator entry lies in the range of the group it is
\* mapped to, the sentinel group included, and the ranges of two groups have no
\* index in common.
C18_GroupRanges ==
    corrPc = "pass" =>
        /\ \A f \in {x \in Range(modList) : ~isSeparator(x)} :
              IndexOf(modList, f) \in GroupRange(modList, SeparatorMapGet(modList, f))
        /\ \A g, h \in DOMAIN SeparatorBoundaries(modList) :
              g # h => GroupRange(modList, g) \cap GroupRange(modList, h) = {}

\* C19 (as stated): the proposed order is the same for every order in which
\* the selected dependents can be visited.
C19_VisitOrderIrrelevant ==
    CorrectorRan =>
        \A v \in Perms({q[1] : q \in problems_to_fix}) :
            ProposedOrder(modList, problems_to_fix, v) = proposed_order

\* C20 (termination of the pass loop): inside the loop the pass number never
\* exceeds |movingSet| + 2, the pass has a dependent left to visit or its end
\* can be taken; the end of a pass without a change cannot start another pass;
\* and after such an end one more pass over movingSet would change nothing.
C20_PassLoopTerminates ==
    /\ corrPc = "pass" =>
         /\ passNo <= Len(visit) + 2
         /\ visitIdx \in 1..(Len(visit) + 1)
         /\ visitIdx > Len(visit) => ENABLED CorrEndPass
    /\ (corrPc = "pass" /\ visitIdx > Len(visit) /\ ~made_change_in_pass) =>
         ~ENABLED (CorrEndPass /\ corrPc' = "pass")
    /\ (CorrectorRan /\ ~made_change_in_pass) =>
         PassOver(modList, problems_to_fix, visit, 1,
                  [order |-> proposed_order, changed |-> FALSE])
            = [order |-> proposed_order, changed |-> FALSE]

\* a correction of two dependents that changed the order in its first pass and
\* stopped after its second, before the bound of four passes
C20_Witness ==
    /\ uiOutcome = "proposal"
    /\ Len(visit) = 2
    /\ passNo = 2
    /\ ~made_change_in_pass

(***************************************************************************)
(* Properties of the diagnostics, stated over the organizer's list, the    *)
(* Nexus ids of the folders and the requirement rows of the pages.         *)
(***************************************************************************)
\* the folder f has a Nexus id and its requirements are not ignored
Diagnosed(f) ==
    /\ Has(modList, f) /\ ~isSeparator(f)
    /\ nexusId[f] # 0
    /\ nexusId[f] \notin ignore_requirements_of_ids

\* r is a folder of an installed effective id that a requirement row of f names
SatisfiedProvider(f, r) ==
    /\ Diagnosed(f)
    /\ Has(modList, r) /\ ~isSeparator(r) /\ nexusId[r] # 0
    /\ \E k \in DOMAIN site[nexusId[f]].requires :
         /\ site[nexusId[f]].requires[k].url[1] = "mods"
         /\ nexusId[r] = (IF site[nexusId[f]].requires[k].url[2] \in DOMAIN replacement_map
                          THEN replacement_map[site[nexusId[f]].requires[k].url[2]]
                          ELSE site[nexusId[f]].requires[k].url[2])

\* a pair is reported exactly if the provider is a satisfied provider that comes
\* after the dependent
ReportedIffViolated ==
    \A f, r \in Range(modList) :
        (<<f, r>> \in ReportedPairs(load_order_problems))
        <=> (SatisfiedProvider(f, r) /\ IndexOf(modList, r) > IndexOf(modList, f))

NoReportFor(f) == \A i \in DOMAIN load_order_problems : load_order_problems[i].mod_folder # f

\* C4 (as stated): the report is sound and complete, and a folder with no
\* reported violation has every satisfied provider before it.
C4_AsStated ==
    corrPc = "report" =>
        /\ ReportedIffViolated
        /\ \A f, r \in Range(modList) :
             (NoReportFor(f) /\ SatisfiedProvider(f, r))
             => IndexOf(modList, r) < IndexOf(modList, f)

\* C4 (amended): the report is sound and complete, and a folder with no reported
\* violation has every satisfied provider other than itself before it.
C4_SoundComplete ==
    corrPc = "report" =>
        /\ ReportedIffViolated
        /\ \A f, r \in Range(modList) :
             (NoReportFor(f) /\ SatisfiedProvider(f, r) /\ r # f)
             => IndexOf(modList, r) < IndexOf(modList, f)

\* a report with a violation, and a folder that is its own provider without one
C4_Witness ==
    /\ corrPc = "report"
    /\ load_order_problems # <<>>
    /\ \E f \in Range(modList) : NoReportFor(f) /\ SatisfiedProvider(f, f)

(***************************************************************************)
(* Properties of the full analysis.                                        *)
(***************************************************************************)
\* the analysis has put its result with data
AnalysisCompleted ==
    netPc = "done" /\ results # <<>> /\ results[Len(results)] = CompleteMessage("full")

\* the row k of the page of the installed folder x names a mod that is unmet
UnmetRequirement(x, k) ==
    /\ nexusId[x] # 0
    /\ nexusId[x] \notin ignore_requirements_of_ids
    /\ k \in DOMAIN site[nexusId[x]].requires
    /\ site[nexusId[x]].requires[k].url[1] = "mods"
    /\ site[nexusId[x]].requires[k].url[2] \notin ignore_ids
    /\ (IF site[nexusId[x]].requires[k].url[2] \in DOMAIN replacement_map
        THEN replacement_map[site[nexusId[x]].requires[k].url[2]]
        ELSE site[nexusId[x]].requires[k].url[2])
           \notin {nexusId[m] : m \in Mods}

ExpectedTags(notes) == IF notes = NoteOptional THEN {"optional"} ELSE {}

\* the report lists the folder x under the id that the row k of its page names
ListedInReport(x, k) ==
    /\ site[nexusId[x]].requires[k].url[2] \in DOMAIN missing_report
    /\ \E i \in DOMAIN missing_report[site[nexusId[x]].requires[k].url[2]].required_by_installed :
         missing_report[site[nexusId[x]].requires[k].url[2]].required_by_installed[i]
            = [folder |-> x,
               notes  |-> site[nexusId[x]].requires[k].notes,
               tags   |-> ExpectedTags(site[nexusId[x]].requires[k].notes)]

\* C10 (as stated): in a completed full analysis every unmet requirement of an
\* installed folder has a report entry that lists the folder with the note and
\* the tags of the note, for every depth setting from 0.
C10_MissingReported ==
    AnalysisCompleted =>
        \A x \in Mods : \A k \in 1..MaxNetEdges + 1 :
            UnmetRequirement(x, k) => ListedInReport(x, k)

\* the last terminal message of the run
LastResult == results[Len(results)]

\* the network build of a full analysis is running
InNetworkBuild == netPc \in {"phase1", "layers"}

\* C11 (cancellation of the network build): a step taken while the stop flag is
\* set during the network build ends the run with an analysis_complete message
\* of empty data and leaves the missing-dependency report, the sort and the
\* diagnostics untouched; a run that ends with the stop flag set has put the
\* empty message.
C11_BuildVoidOnStop ==
    /\ []((netPc = "done" /\ stop_requested)
            => (results # <<>> /\ LastResult = CompleteMessage("void")))
    /\ [][(InNetworkBuild /\ stop_requested)
            => /\ netPc' = "done"
               /\ results' = results \o <<CompleteMessage("void")>>
               /\ missing_report' = missing_report
               /\ sortVars' = sortVars
               /\ load_order_problems' = load_order_problems]_vars

\* a run stopped in the middle of a layer: some pages of mods that are not
\* installed are known, the run is over with the empty message and no later
\* stage has run
C11_Witness ==
    /\ netPc = "done" /\ stop_requested
    /\ Len(known_mod_data) > Cardinality(installed_ids)
    /\ known_ids # KnownIds(known_mod_data)
    /\ LastResult = CompleteMessage("void")
    /\ missing_report = EmptyMap /\ sortPc = "idle" /\ load_order_problems = <<>>

(***************************************************************************)
(* Properties of get_mod_data.                                             *)
(***************************************************************************)
\* C12 (as stated): whatever the connection, the retry setting and the stop
\* flag, a call of get_mod_data returns a record, with or without an error
\* marker, and never the absent value None.
C12_NeverAbsent == fetchPc = "returned" => ~mod_data.absent

(***************************************************************************)
(* Properties of the worker's operations and of the shared maps.           *)
(***************************************************************************)
\* the terminal messages among the messages put so far
TerminalCount ==
    Cardinality({i \in DOMAIN results : results[i].type \in {"analysis_complete", "error"}})

\* C13 (as stated): every analysis operation the worker has finished has put
\* exactly one terminal message, analysis_complete or error: with the worker
\* idle there are as many terminal messages as tasks taken from the queue.
C13_OneTerminalMessage == workerPc = "idle" => TerminalCount = handled

\* C14 (as stated): while correct_load_order computes its scores from the
\* analyzer's maps, the worker is not inside _parse_installed_mods, between
\* the clear of the maps and their refill.
C14_MapsImmutable == uiPc = "scoring" => workerPc # "fill"

(***************************************************************************)
(* Properties of the dependency tree.                                      *)
(***************************************************************************)
RECURSIVE NodesUnder(_, _)
\* the nodes of a tree, each with the ids of its ancestors from the root down
NodesUnder(node, ancestors) ==
    {[node |-> node, ancestors |-> ancestors]}
    \cup UNION {NodesUnder(node.children[k], Append(ancestors, node.id)) :
                    k \in DOMAIN node.children}

\* a call from the caller has returned a tree
TreeBuilt == treePc = "done" /\ ~root_data.absent

TreeNodes == IF TreeBuilt THEN NodesUnder(root_data, <<>>) ELSE {}

\* C21: in a tree built from an empty visited set, a node has the status
\* 'cycle' exactly when its id is the id of one of its ancestors; two nodes
\* with the same id in different branches that have no such ancestor are not
\* marked 'cycle', each has the status of a node of its own.
C21_CycleIffAncestor ==
    \A n \in TreeNodes :
        /\ (n.node.status = "cycle") <=> Has(n.ancestors, n.node.id)
        /\ ~Has(n.ancestors, n.node.id) =>
              n.node.status \in {"satisfied", "missing", "truncated"}

\* a tree with an id reached through two branches and expanded in both, and
\* with a node that closes a cycle
C21_Witness ==
    /\ \E n1, n2 \in TreeNodes :
         /\ n1.node.id = n2.node.id /\ n1.ancestors # n2.ancestors
         /\ n1.node.status = "satisfied" /\ n2.node.status = "satisfied"
         /\ n1.node.children # <<>> /\ n2.node.children # <<>>
    /\ \E n \in TreeNodes : n.node.status = "cycle"

\* node.get('is_fully_satisfied', False)
FullySatisfied(node) == node.has_key /\ node.is_fully_satisfied

\* C22 (as stated): a node of a built tree is fully satisfied exactly when its
\* effective id is installed and every child in the tree is fully satisfied.
C22_FullySatisfiedIff ==
    \A n \in TreeNodes :
        FullySatisfied(n.node)
            <=> /\ GetEffectiveId(replacement_map, n.node.id) \in installed_ids
                /\ \A k \in DOMAIN n.node.children : FullySatisfied(n.node.children[k])

\* C23: the calls in progress are never more than the depth setting and each
\* is at a row of its page or at its end, where an iteration or a return is
\* possible; in a built tree no node lies deeper than the depth setting, and a
\* node at that depth that closes no cycle is 'truncated', has no children
\* and is not fully satisfied.
C23_DepthBounded ==
    /\ treePc = "running" =>
         /\ Len(call_stack) \in 1..MAX_RECURSION_DEPTH
         /\ \A k \in DOMAIN call_stack :
              /\ call_stack[k].d = k - 1
              /\ call_stack[k].i \in 0..Len(call_stack[k].reqs)
         /\ ENABLED (BuildTreeRequirement \/ BuildTreeReturn)
    /\ \A n \in TreeNodes :
         /\ Len(n.ancestors) <= MAX_RECURSION_DEPTH
         /\ (Len(n.ancestors) >= MAX_RECURSION_DEPTH /\ ~Has(n.ancestors, n.node.id)) =>
              /\ n.node.status = "truncated"
              /\ n.node.children = <<>>
              /\ ~FullySatisfied(n.node)

\* a tree over pages that require each other in a cycle, with an installed
\* node cut at the depth setting
C23_Witness ==
    /\ \E n \in TreeNodes : n.node.status = "cycle"
    /\ \E n \in TreeNodes :
         /\ Len(n.ancestors) = MAX_RECURSION_DEPTH
         /\ n.node.status = "truncated" /\ n.node.is_installed

(***************************************************************************)
(* Properties of the requirement graph and its mirror.                     *)
(***************************************************************************)
\* the number of entries of a list equal to e
CountOf(list, e) == Cardinality({k \in DOMAIN list : list[k] = e})

\* the notes that occur in the two graphs
GraphNotes ==
    UNION {{full_graph[a][k].notes : k \in DOMAIN full_graph[a]} : a \in Ids}
    \cup UNION {{reverse_graph[a][k].notes : k \in DOMAIN reverse_graph[a]} : a \in Ids}

\* C24: when _build_full_dependency_network has returned (and until the sort
\* starts; nothing writes the graphs later), graph[a] holds the entry
\* (b, note) as many times as reverse_graph[b] holds (a, note), and neither
\* graph has an edge that starts at an id of ignore_requirements_of_ids.
C24_MirrorGraphs ==
    sortPc = "idle" =>
        /\ \A a, b \in Ids : \A n \in GraphNotes :
             CountOf(full_graph[a], [id |-> b, notes |-> n])
                = CountOf(reverse_graph[b], [id |-> a, notes |-> n])
        /\ \A a \in ignore_requirements_of_ids :
             /\ full_graph[a] = <<>>
             /\ \A b \in Ids :
                  \A k \in DOMAIN reverse_graph[b] : reverse_graph[b][k].id # a

\* a network was built in which a known page with rows belongs to an id whose
\* requirements are ignored, next to a page whose rows became edges
C24_Witness ==
    /\ netPc = "missing" /\ sortPc = "idle"
    /\ \E a \in ignore_requirements_of_ids :
         /\ a \in KnownIds(known_mod_data)
         /\ KnownData(known_mod_data, a).requires # <<>>
    /\ \E b \in Ids : reverse_graph[b] # <<>>

(***************************************************************************)
(* Properties of the corrector's working order.                            *)
(***************************************************************************)
\* C25 (as stated): a moved folder whose selected providers all lie in its own
\* separator group has, in the proposed order, the nearest preceding separator
\* (or the absence of one) that it has in the original order.
C25_StaysInGroup ==
    CorrectorRan =>
        \A f \in moved_mods :
            (~isSeparator(f) /\ ~HasCrossGroupProvider(f))
            => SeparatorMapGet(proposed_order, f) = SeparatorMapGet(modList, f)

\* mods_to_move: the dependents of the selected problems
MovingSet == {q[1] : q \in problems_to_fix}

\* the entries of a list that are not in mods_to_move, in the order of the list
Unmoved(list) == SelectSeq(list, LAMBDA x : x \notin MovingSet)

\* C26: during the passes and after them the working order is a permutation
\* of the original order, and the entries that are not dependents of selected
\* problems keep their relative order.
C26_OnlyDependentsReinserted ==
    (corrPc = "pass" \/ CorrectorRan) =>
        /\ Len(proposed_order) = Len(modList)
        /\ \A x \in Range(modList) : CountOf(proposed_order, x) = 1
        /\ Unmoved(proposed_order) = Unmoved(modList)

\* a pass is over in which a dependent was re-inserted past entries that stay
C26_Witness ==
    /\ corrPc = "pass" /\ passNo = 2
    /\ proposed_order # modList
    /\ Len(Unmoved(modList)) >= 3

(***************************************************************************)
(* Properties that relate the disruption score and the diagnostics.        *)
(***************************************************************************)
\* C27: with the graph, the rule tables and the installed maps of the
\* diagnosis, the disruption score of the current order is the number of
\* problems the diagnosis reports; it is 0 exactly when nothing is reported.
C27_ScoreEqualsReport ==
    corrPc = "report" =>
        /\ CalculateDisruptionScore(modList, folder_to_id, id_to_folders,
               installed_ids, replacement_map, ignore_requirements_of_ids,
               full_graph) = Len(load_order_problems)
        /\ (CalculateDisruptionScore(modList, folder_to_id, id_to_folders,
               installed_ids, replacement_map, ignore_requirements_of_ids,
               full_graph) = 0) <=> (load_order_problems = <<>>)

\* a diagnosis that reports two problems of one requirement entry, both
\* folders of the required id coming after the dependent
C27_Witness ==
    /\ corrPc = "report"
    /\ \E i, j \in DOMAIN load_order_problems :
         /\ i # j
         /\ load_order_problems[i].mod_folder = load_order_problems[j].mod_folder
         /\ load_order_problems[i].provider_id = load_order_problems[j].provider_id
         /\ load_order_problems[i].provider_folder # load_order_problems[j].provider_folder

(***************************************************************************)
(* Properties of the cycle-break points of the sort.                       *)
(***************************************************************************)
\* an edge of the sort: d's page names the effective id of p, both installed,
\* and the requirements of d's id are not ignored
SortRequires(d, p) ==
    /\ Requires(d, p)
    /\ IdOfFolder(folder_to_id, d) \notin ignore_requirements_of_ids

RECURSIVE SortReachableIn(_, _)
SortReachableIn(S, n) ==
    IF n = 0 THEN S
    ELSE SortReachableIn(S \cup {p \in Folders(folder_to_id) :
                                    \E d \in S : SortRequires(d, p)}, n - 1)

\* f lies on a directed cycle of the edges of the sort
OnSortCycle(f) ==
    f \in SortReachableIn({p \in Folders(folder_to_id) : SortRequires(f, p)},
                          Cardinality(Folders(folder_to_id)))

\* C28 (as stated): every folder recorded as a cycle-break point lies on a
\* directed cycle of the satisfied requirements among the installed folders.
C28_BreakOnlyOnCycle ==
    \A i \in DOMAIN broken_cycle_nodes : OnSortCycle(broken_cycle_nodes[i])

(***************************************************************************)
(* Properties of the stop request and of the running state of the dialog.  *)
(***************************************************************************)
\* C29 (as stated): a stop request is never lost: when trigger_stop has called
\* request_stop after _start_task put the task the worker is now handling, and
\* the task has not yet finished, the stop flag is set.
C29_StopNeverLost ==
    (stop_called /\ task_queue = <<>> /\ workerPc # "idle") => stop_requested

\* what can still end the running state: a task in the queue, a task in the
\* worker's hands, or a message process_results has not handled
EndPending == task_queue # <<>> \/ workerPc # "idle" \/ processed < Len(results)

\* C30 (as stated): the running state set by _start_task always ends, for
\* every task and every outcome: while is_running_analysis is true, a message
\* whose handling sets it back to false is on its way.  A state with the flag
\* set and nothing pending is one the dialog stays in forever, since
\* _start_task returns early while the flag is set.
C30_RunningEnds == is_running_analysis => EndPending
====
